---- MODULE Spec2Model ----
(***************************************************************************)
(* Reactive GraphQL execution (src/src/execution/execute.ts) as a state    *)
(* machine.  One execution of one operation is modelled: execute() builds  *)
(* the observable tree, one consumer subscribes to the result stream, the  *)
(* streams returned by the resolvers (hot sources) emit, fail and complete *)
(* in any order, and the consumer may unsubscribe.  Every action is one    *)
(* external event together with the whole synchronous cascade it triggers  *)
(* through switchMap / catchError / take / combineLatest.                  *)
(***************************************************************************)
EXTENDS Integers, Sequences, FiniteSets, TLC

\* Bound on the number of notifications the resolver streams send.
MaxEvents == 3

VARIABLES
  scenario,   \* schema use of this run: operation kind, selection, resolvers
  status,     \* state of the result stream: none, built, subscribed, ...
  dataNull,   \* executeOperation caught a synchronous throw: data is of(null)
  src,        \* state of every stream a resolver can return (hot source)
  chain,      \* per response key: the subscription chain feeding that key
  slot,       \* per response key: latest value held by combineLatest
  errors,     \* exeContext.errors
  fatal,      \* the error notification that ended the result stream, if any
  ops,        \* subscribe / unsubscribe operations of the last step, in order
  snaps,      \* snapshots the result stream emitted in the last step
  calls,      \* resolver invocations of the last step, in order
  fed,        \* response keys whose field stream emitted in the last step
  lastRaw,    \* per source: last raw value it sent since the result was subscribed
  ncalls,     \* per field: how often its resolver has been invoked so far
  total,      \* number of snapshots the result stream has emitted so far
  nsub,       \* per source: number of subscriptions it currently has
  early,      \* some source sent a value before the result was subscribed
  event,      \* the notification a source sent in the last step, if any
  firstRun,   \* snapshots the first subscription got, once there is a second
  resubs,     \* number of further subscriptions to the same result stream
  nEvents,    \* number of source notifications so far
  typeCall,   \* the value and possible types defaultResolveTypeFn is called with
  typeResult, \* what that call has returned so far
  dropped     \* awaited Promises whose subscriber has been unsubscribed

vars == <<scenario, status, dataNull, src, chain, slot, errors, fatal,
          ops, snaps, calls, fed, lastRaw, ncalls, total, nsub, early, event,
          firstRun, resubs, nEvents, typeCall, typeResult, dropped>>

-----------------------------------------------------------------------------
(* Schema.  Field names are unique over the two object types.               *)

StringType == [nonNull |-> FALSE, kind |-> "leaf"]
EmitterType == [nonNull |-> FALSE, kind |-> "object"]
NodeType == [nonNull |-> FALSE, kind |-> "abstract"]
GraphQLNonNull(type) == [type EXCEPT !.nonNull = TRUE]
GraphQLList(ofType) == [nonNull |-> FALSE, kind |-> "list", ofType |-> ofType]

ListFieldNames == {"es", "esn", "tags", "tagsn"}
RootFieldNames == {"a", "b", "c", "e", "currentEmitter", "n"} \cup ListFieldNames
EmitterFieldNames == {"value", "opt"}
FieldNames == RootFieldNames \cup EmitterFieldNames

\* type Query / Mutation { a: String  b: String!  c: String
\*                         e: Emitter  currentEmitter: Emitter!
\*                         es: [Emitter]  esn: [Emitter!]
\*                         tags: [String]  tagsn: [String!]  n: Node }
\* interface Node { value: String!  opt: String }
\* type Emitter implements Node { value: String!  opt: String }
\* type Other { value: String! }
FieldTypes ==
  [a |-> StringType, b |-> GraphQLNonNull(StringType), c |-> StringType,
   e |-> EmitterType, currentEmitter |-> GraphQLNonNull(EmitterType),
   es |-> GraphQLList(EmitterType), esn |-> GraphQLList(GraphQLNonNull(EmitterType)),
   tags |-> GraphQLList(StringType), tagsn |-> GraphQLList(GraphQLNonNull(StringType)),
   value |-> GraphQLNonNull(StringType), opt |-> StringType, n |-> NodeType]

ObjectTypeNames == {"Emitter", "Other"}
\* schema.isPossibleType(Node, type)
isPossibleType(typeName) == typeName = "Emitter"

\* getFieldDef finds no definition for a name the parent type does not have
AbsentFieldNames == {"ghost"}
hasFieldDef(fieldName) == fieldName \in FieldNames

isNonNullType(type) == type.nonNull
isLeafType(type) == type.kind = "leaf"
isObjectType(type) == type.kind = "object"
isListType(type) == type.kind = "list"
isAbstractType(type) == type.kind = "abstract"

-----------------------------------------------------------------------------
(* Values.  Raw values are what resolvers and their streams produce;        *)
(* "null" stands for null / undefined / NaN, "bad" for a value the leaf     *)
(* serializer maps to undefined.  Completed values are what snapshots hold. *)

LeafRaw == {"v1", "v2"}
ParentRaw == {"A", "B"}
NullishRaw == {"null", "undefined", "NaN"}
\* values whose completion fails: "badNaN" is serialized to NaN, "F" is an
\* object the isTypeOf predicate of Emitter rejects, "asString", "asOther"
\* and "asNothing" are objects for which resolveType of Node names a scalar
\* type, the object type Other and no type; 5 is not iterable
LeafFailRaw == {"badNaN"}
ObjectFailRaw == {"F"}
AbstractFailRaw == {"asString", "asOther", "asNothing"}
ListFailRaw == {"5"}
RawValues == LeafRaw \cup ParentRaw \cup NullishRaw \cup {"bad"} \cup LeafFailRaw
             \cup ObjectFailRaw \cup AbstractFailRaw \cup ListFailRaw

\* iterables a list field may resolve to, by name, and their items
ParentLists == {"[]", "[A]", "[A,B]"}
LeafLists == {"[]", "[v1,v2]", "[v1,bad]", "[bad,v2]"}
ListRaw == ParentLists \cup LeafLists
Items(raw) ==
  CASE raw = "[A]" -> <<"A">>
    [] raw = "[A,B]" -> <<"A", "B">>
    [] raw = "[v1,v2]" -> <<"v1", "v2">>
    [] raw = "[v1,bad]" -> <<"v1", "bad">>
    [] raw = "[bad,v2]" -> <<"bad", "v2">>
    [] OTHER -> <<>>

\* the key addPath gives the item at position i (positions count from 1 here)
IndexKey(i) == CASE i = 1 -> "0" [] i = 2 -> "1" [] OTHER -> "2"

NoVal == [t |-> "none", v |-> "", kv |-> <<>>, names |-> <<>>]
NullVal == [t |-> "null", v |-> "", kv |-> <<>>, names |-> <<>>]
LeafVal(v) == [t |-> "leaf", v |-> v, kv |-> <<>>, names |-> <<>>]
ListVal(kv) == [t |-> "list", v |-> "", kv |-> kv, names |-> <<>>]
UndefVal == [t |-> "undefined", v |-> "", kv |-> <<>>, names |-> <<>>]

\* variant: NaN is taken for a value
isNullishButNaN(value) == value = "null" \/ value = "undefined"

\* value === null || value === undefined || value !== value
isNullish(value) == value = "null" \/ value = "undefined" \/ value = "NaN"
isInvalid(value) == value = "undefined" \/ value = "NaN"

\* GraphQLString.serialize on the model's raw values
serialize(value) ==
  CASE value = "bad" -> "undefined"
    [] value = "badNaN" -> "NaN"
    [] OTHER -> value

-----------------------------------------------------------------------------
(* Scenarios: the operation, its selection and what each resolver does:     *)
(* "stream" (returns its hot stream), "promise" (returns a Promise, which   *)
(* from() turns into a stream), "throws", or a plain raw value; a           *)
(* selected name without field definition has no resolver ("absent").       *)

AllStreams ==
  [f \in FieldNames \cup AbsentFieldNames |-> IF hasFieldDef(f) THEN "stream" ELSE "absent"]

NoAlias == [f \in FieldNames \cup AbsentFieldNames |-> "none"]

Scenario(operation, sel, sub, resolver) ==
  [operation |-> operation, sel |-> sel, sub |-> sub, resolver |-> resolver,
   alias |-> NoAlias, request |-> "ok", extra |-> {}, isTypeOf |-> "none"]

With(resolver, f, b) == [resolver EXCEPT ![f] = b]

\* queries whose resolvers all return streams
ReadStreams ==
  { Scenario("query", <<"a", "b">>, <<>>, AllStreams),
    Scenario("query", <<"a", "e">>, <<"value">>, AllStreams),
    Scenario("query", <<"currentEmitter">>, <<"value">>, AllStreams) }

\* queries with a resolver that throws or returns a plain value
ReadMixed ==
  { Scenario("query", <<"a", "b">>, <<>>, With(AllStreams, "a", "throws")),
    Scenario("query", <<"a", "b">>, <<>>, With(AllStreams, "b", "throws")),
    Scenario("query", <<"a", "b">>, <<>>, With(AllStreams, "a", "v1")),
    Scenario("query", <<"a", "e">>, <<"value">>, With(AllStreams, "value", "throws")),
    Scenario("query", <<"a", "e">>, <<"value", "opt">>,
             With(With(AllStreams, "e", "A"), "opt", "throws")) }

\* mutations
WriteStreams ==
  { Scenario("mutation", <<"a", "b", "c">>, <<>>, AllStreams),
    Scenario("mutation", <<"e", "c">>, <<"value">>, AllStreams) }

WriteMixed ==
  { Scenario("mutation", <<"a", "b", "c">>, <<>>, With(AllStreams, "a", "v1")),
    Scenario("mutation", <<"a", "b", "c">>, <<>>, With(AllStreams, "b", "throws")),
    Scenario("mutation", <<"c", "a", "b">>, <<>>, With(AllStreams, "a", "throws")),
    \* every resolver returns a plain value: one-shot streams
    Scenario("mutation", <<"e", "c">>, <<"value">>,
             With(With(With(AllStreams, "e", "A"), "value", "v1"), "c", "v2")) }

\* queries over list fields: lists of objects with one selected field, and
\* lists of leaves
ListScenarios ==
  { Scenario("query", <<"es">>, <<"value">>, With(AllStreams, "es", "[A,B]")),
    Scenario("query", <<"es">>, <<"opt">>, With(AllStreams, "es", "[A,B]")),
    Scenario("query", <<"es", "a">>, <<"opt">>, AllStreams),
    Scenario("query", <<"es">>, <<"value">>,
             With(With(AllStreams, "es", "[A,B]"), "value", "throws")),
    Scenario("query", <<"esn">>, <<"value">>, With(AllStreams, "esn", "[A,B]")),
    Scenario("query", <<"tags", "a">>, <<>>, AllStreams),
    Scenario("query", <<"tagsn", "a">>, <<>>, AllStreams) }

\* operations with an empty selection set, at the top or under an object field
EmptyScenarios ==
  { Scenario("query", <<>>, <<>>, AllStreams),
    Scenario("mutation", <<>>, <<>>, AllStreams),
    Scenario("query", <<"e", "a">>, <<>>, AllStreams),
    Scenario("query", <<"e", "a">>, <<>>, With(AllStreams, "e", "A")) }

\* operations that select a name the root type does not define
AbsentScenarios ==
  { Scenario("query", <<"ghost", "a">>, <<>>, AllStreams),
    Scenario("query", <<"a", "ghost">>, <<>>, With(AllStreams, "a", "v1")),
    Scenario("mutation", <<"ghost", "a">>, <<>>, AllStreams) }

\* what the resolver of name does when called with source: "v1 for A" is
\* a resolver that returns the plain value v1 for the source A and a stream
\* for any other source
resolverFor(name, source) ==
  IF scenario.resolver[name] = "v1 for A"
    THEN (IF source = "A" THEN "v1" ELSE "stream")
    ELSE scenario.resolver[name]

\* queries over an object field whose stream sends one parent after another
SwitchScenarios ==
  { Scenario("query", <<"e", "a">>, <<"value">>, AllStreams),
    Scenario("query", <<"currentEmitter">>, <<"value">>, AllStreams),
    Scenario("query", <<"e", "a">>, <<"value">>, With(AllStreams, "value", "v1 for A")),
    Scenario("query", <<"e", "a">>, <<"value", "opt">>, With(AllStreams, "value", "throws")),
    Scenario("query", <<"e", "a">>, <<"opt", "value">>, With(AllStreams, "opt", "throws")) }

\* queries with aliased fields
AliasScenarios ==
  { [Scenario("query", <<"a", "b">>, <<>>, AllStreams) EXCEPT !.alias["a"] = "x"],
    [Scenario("query", <<"b", "a">>, <<>>, AllStreams)
       EXCEPT !.alias["b"] = "first", !.alias["a"] = "b2"],
    [Scenario("query", <<"e", "a">>, <<"value", "opt">>, AllStreams)
       EXCEPT !.alias["value"] = "title"] }

\* queries whose resolvers yield null, undefined or NaN, as a plain value or
\* through their streams
NullishScenarios ==
  { [sc EXCEPT !.extra = {"undefined", "NaN"}] :
      sc \in { Scenario("query", <<"e", "a">>, <<"opt">>, AllStreams),
               Scenario("query", <<"currentEmitter">>, <<"value">>, AllStreams),
               Scenario("query", <<"es">>, <<"value">>, AllStreams),
               Scenario("query", <<"e", "a">>, <<"value">>,
                        With(With(AllStreams, "e", "undefined"), "a", "NaN")),
               Scenario("query", <<"e", "a">>, <<"value">>,
                        With(With(AllStreams, "e", "null"), "a", "undefined")) } }

\* what is wrong with the request handed to the entry point, if anything
Requests == {"ok", "schemaInvalid", "syntaxError", "queryInvalid", "noContext"}

\* requests that pass the entry point and make the dispatcher throw before
\* its try block: the schema has no root type for the operation
\* (getOperationRootType throws), a directive of a top-level selection has
\* no usable argument value (collectFields throws)
DispatcherFaults == {"noRootType", "badDirective"}
DispatchScenarios ==
  { [sc EXCEPT !.request = r] :
      sc \in { Scenario("query", <<"a", "b">>, <<>>, AllStreams),
               Scenario("query", <<"a", "b">>, <<>>, With(AllStreams, "b", "throws")),
               Scenario("query", <<"e", "a">>, <<"value">>, With(AllStreams, "a", "throws")),
               Scenario("mutation", <<"b", "a">>, <<>>, With(AllStreams, "b", "throws")),
               Scenario("mutation", <<"e", "c">>, <<"value">>, AllStreams) },
      r \in {"ok"} \cup DispatcherFaults }
RequestScenarios ==
  { [sc EXCEPT !.request = r] :
      sc \in { Scenario("query", <<"a", "b">>, <<>>, AllStreams),
               Scenario("query", <<"a", "b">>, <<>>, With(AllStreams, "a", "v1")),
               Scenario("query", <<"a", "b">>, <<>>, With(AllStreams, "b", "throws")),
               Scenario("mutation", <<"e", "c">>, <<"value">>, AllStreams) },
      r \in Requests }

\* queries none of whose resolvers returns a stream: plain values, Promises
\* and throwing resolvers
OneShotResolvers ==
  { [f \in FieldNames \cup AbsentFieldNames |->
       CASE f = "a" -> ra [] f = "b" -> rb [] f = "e" -> re [] f = "value" -> rv
         [] f \in AbsentFieldNames -> "absent" [] OTHER -> "v1"] :
    ra \in {"v1", "bad", "promise", "throws"}, rb \in {"v1", "null", "promise"},
    re \in {"A", "null", "promise"}, rv \in {"v1", "promise", "throws"} }

OneShotScenarios ==
  { Scenario("query", sel, IF sel[2] = "e" THEN <<"value">> ELSE <<>>, resolver) :
      sel \in {<<"a", "b">>, <<"a", "e">>}, resolver \in OneShotResolvers }

Scenarios == ReadStreams \cup ReadMixed \cup WriteStreams \cup WriteMixed

Sources == {<<f>> : f \in RootFieldNames} \cup (EmitterFieldNames \X ParentRaw)

\* what a source may send: parents for object fields, iterables for list
\* fields, leaf values otherwise
\* (scenario.extra: further values of the scenario's sources; NaN, a number,
\* is sent by the sources of leaf fields only)
Emits(s) ==
  IF Len(s) = 1 /\ isObjectType(FieldTypes[s[1]])
    THEN ParentRaw \cup {"null"}
         \cup (scenario.extra \cap ({"null", "undefined"} \cup ObjectFailRaw))
  ELSE IF Len(s) = 1 /\ isAbstractType(FieldTypes[s[1]])
    THEN ParentRaw \cup {"null"}
         \cup (scenario.extra \cap (ObjectFailRaw \cup AbstractFailRaw))
  ELSE IF Len(s) = 1 /\ isListType(FieldTypes[s[1]])
    THEN (IF isObjectType(FieldTypes[s[1]].ofType) THEN ParentLists ELSE LeafLists)
         \cup {"null"}
         \cup (scenario.extra \cap ({"null", "undefined"} \cup ListFailRaw))
    ELSE LeafRaw \cup {"null", "bad"}
         \cup (scenario.extra \cap (NullishRaw \cup LeafFailRaw))

\* what resolveField returns for a selected name: always an Observable
resolveField(fieldName) ==
  IF ~hasFieldDef(fieldName) THEN "of(undefined)" ELSE "completeValueCatchingError(...)"
\* executeFields keeps the response names whose result is not undefined
results == SelectSeq(scenario.sel, LAMBDA f : resolveField(f) # "undefined")

N == Len(results)
Keys == 1..N

\* variant: the key is the field name even when an alias is given
responseKeyIsFieldName(f) == f

\* the response key under which collectFields files a field
responseKey(f) == IF scenario.alias[f] = "none" THEN f ELSE scenario.alias[f]

\* the keys of the object combinePropsLatest builds from the streams stored
\* under the response names of fields, in the order they were stored
combinedKeys(fields, values) ==
  [i \in 1..Len(values) |-> responseKey(fields[i])]

ObjVal(kv) ==
  [t |-> "obj", v |-> "", kv |-> kv, names |-> combinedKeys(scenario.sub, kv)]

\* par names the value the current inner stream was built from, items its
\* items when that value is an iterable; kids are the inner stream's inputs
\* (buffer: the values concatMap holds back in the ad-hoc executor)
\* (pend: the value whose runtime type or isTypeOf outcome is awaited, and
\* which of the two)
NoPend == [raw |-> "none", phase |-> "none"]
IdleChain == [stage |-> 0, st |-> "idle", outer |-> "none", par |-> "none",
              items |-> <<>>, kids |-> <<>>, buffer |-> <<>>, pend |-> NoPend]

-----------------------------------------------------------------------------
(* The state one cascade threads through its operators.                     *)

Op(op, s) == [op |-> op, s |-> s]
Log(S, op, s) == [S EXCEPT !.ops = Append(@, Op(op, s))]

RECURSIVE Flat(_)
Flat(ss) == IF ss = <<>> THEN <<>> ELSE Head(ss) \o Flat(Tail(ss))

Err(path, why) == [path |-> path, why |-> why]

\* variant: every resolver is called with the root value as its source
InvokeWithRoot(S, fieldName, source) ==
  [S EXCEPT !.calls = Append(@, <<fieldName, "root">>),
            !.ncalls[fieldName] = @ + 1]

\* resolveFn(source, args, contextValue, info) is called
Invoke(S, fieldName, source) ==
  [S EXCEPT !.calls = Append(@, <<fieldName, source>>),
            !.ncalls[fieldName] = @ + 1]

\* graphql-js locatedError: an error that already carries a path is kept
locatedError(rawError, path) ==
  IF rawError.path # <<>> THEN rawError ELSE [rawError EXCEPT !.path = path]

\* variant: a nullable field's error is dropped instead of recorded
handleFieldErrorSilent(S, rawError, path, returnType) ==
  [S |-> S, thrown |-> isNonNullType(returnType),
   error |-> locatedError(rawError, path)]

\* variant: every field absorbs its own error, non-null or not
handleFieldErrorAbsorbAll(S, rawError, path, returnType) ==
  LET error == locatedError(rawError, path)
  IN [S |-> [S EXCEPT !.errors = Append(@, error)], thrown |-> FALSE, error |-> error]

\* variant: a recorded error is put in front of the earlier ones
handleFieldErrorPrepend(S, rawError, path, returnType) ==
  LET error == locatedError(rawError, path)
  IN IF isNonNullType(returnType)
       THEN [S |-> S, thrown |-> TRUE, error |-> error]
       ELSE [S |-> [S EXCEPT !.errors = <<error>> \o @],
             thrown |-> FALSE, error |-> error]

\* Either throws the located error (thrown) or records it and yields null.
handleFieldError(S, rawError, path, returnType) ==
  LET error == locatedError(rawError, path)
  IN IF isNonNullType(returnType)
       THEN [S |-> S, thrown |-> TRUE, error |-> error]
       ELSE [S |-> [S EXCEPT !.errors = Append(@, error)],
             thrown |-> FALSE, error |-> error]

\* Observables completeValue can return, and its synchronous throw.
JsNull == [kind |-> "null", val |-> NoVal, why |-> ""]
Of(val) == [kind |-> "of", val |-> val, why |-> ""]
Throw(why) == [kind |-> "throw", val |-> NoVal, why |-> why]
SubFields == [kind |-> "fields", val |-> NoVal, why |-> ""]
ListItems == [kind |-> "list", val |-> NoVal, why |-> ""]

completeLeafValue(result) ==
  LET serializedResult == serialize(result)
  IN IF isInvalid(serializedResult) THEN Throw("serialize")
     ELSE Of(LeafVal(serializedResult))

\* the stream that waits for a Promise (mapPromiseToObservale)
Await(phase) == [kind |-> "await", val |-> NoVal, why |-> phase]

isIterable(result) == result \in ListRaw

\* resolveType of Node: the type it names for a value, if any
resolveType(result) ==
  CASE result = "asString" -> "String"
    [] result = "asOther" -> "Other"
    [] result = "asNothing" -> "undefined"
    [] OTHER -> "Emitter"

ensureValidRuntimeType(runtimeType) ==
  IF runtimeType \notin ObjectTypeNames THEN Throw("notObjectType")
  ELSE IF ~isPossibleType(runtimeType) THEN Throw("notPossibleType")
  ELSE SubFields

\* the isTypeOf predicate of Emitter, where scenario.isTypeOf gives it one:
\* "sync" returns the boolean, "promise" a Promise of it
isTypeOf(result) == result \notin ObjectFailRaw

completeObjectValue(result) ==
  IF scenario.isTypeOf = "promise" THEN Await("isTypeOf")
  ELSE IF scenario.isTypeOf = "sync" /\ ~isTypeOf(result) THEN Throw("isTypeOf")
  ELSE SubFields

\* typeResult is passed through Promise.resolve, whatever resolveType gave
completeAbstractValue(result) == Await("typeResult")

RECURSIVE completeValue(_, _)
completeValue(returnType, result) ==
  IF isNonNullType(returnType)
    THEN LET completed == completeValue([returnType EXCEPT !.nonNull = FALSE], result)
         IN IF completed = JsNull THEN Throw("nonnull") ELSE completed
  ELSE IF isNullish(result) THEN Of(NullVal)
  ELSE IF isListType(returnType)
    THEN (IF isIterable(result) THEN ListItems ELSE Throw("notIterable"))
  ELSE IF isLeafType(returnType) THEN completeLeafValue(result)
  ELSE IF isAbstractType(returnType) THEN completeAbstractValue(result)
  ELSE completeObjectValue(result)

\* Response data and the snapshot built from it.
NullData == [isNull |-> TRUE, fields |-> <<>>, names |-> <<>>]
ObjData(fields) ==
  [isNull |-> FALSE, fields |-> fields, names |-> combinedKeys(results, fields)]

\* variant: the errors key is always part of the response
buildResponseBothKeys(errs, d) ==
  [keys |-> {"errors", "data"}, data |-> d, errors |-> errs]

buildResponse(errs, d) ==
  IF Len(errs) = 0 /\ ~d.isNull
    THEN [keys |-> {"data"}, data |-> d, errors |-> <<>>]
    ELSE [keys |-> {"errors", "data"}, data |-> d, errors |-> errs]

\* what the consumer reads in the errors member of the response r it was
\* given, when the accumulator holds errs: the member is the accumulator
\* array itself (errors: exeContext.errors), not a copy of it; a response
\* built without the member has none
ReadErrors(r, errs) == IF r.keys = {"errors", "data"} THEN errs ELSE r.errors

-----------------------------------------------------------------------------
(* Subscription bookkeeping of one chain.                                   *)

Closed(st) == [IdleChain EXCEPT !.st = st]
SameStage(S, k, j) == S.chain[k].st = "live" /\ S.chain[k].stage = j
SameInner(S, k, j, p) == SameStage(S, k, j) /\ S.chain[k].par = p

\* the inner stream combines the fields of one object, or the items of one
\* iterable (each item an object with the selected field, or a leaf)
IsList(c) == c.items # <<>>
KidName(c, i) == IF IsList(c) THEN scenario.sub[1] ELSE scenario.sub[i]
KidSource(c, i) == <<KidName(c, i), IF IsList(c) THEN c.items[i] ELSE c.par>>

KidUnsubOps(c) ==
  Flat([i \in 1..Len(c.kids) |->
          IF c.kids[i].st = "sub" THEN <<Op("unsub", KidSource(c, i))>> ELSE <<>>])

InstUnsubOps(c) ==
  KidUnsubOps(c) \o
  (IF c.outer = "sub" THEN <<Op("unsub", <<scenario.sel[c.stage]>>)>> ELSE <<>>)

\* the Promises chain k waits for when its inner subscription is dropped:
\* a Promise cannot be cancelled, it is fulfilled later on
Drop(S, k) ==
  IF S.chain[k].st = "live" /\ S.chain[k].pend # NoPend
    THEN <<[k |-> k, raw |-> S.chain[k].pend.raw, phase |-> S.chain[k].pend.phase]>>
    ELSE <<>>

\* switchMap drops its current inner subscription
UnsubInner(S, k) ==
  [S EXCEPT !.ops = @ \o KidUnsubOps(S.chain[k]),
            !.dropped = @ \o Drop(S, k),
            !.chain[k].par = "none", !.chain[k].kids = <<>>, !.chain[k].items = <<>>,
            !.chain[k].pend = NoPend]

\* variant: only the root field streams are released, the sub-selections of
\* object fields keep their subscriptions
TearDownOuterOnly(S, how) ==
  [S EXCEPT
     !.ops = @ \o Flat([k \in Keys |->
                IF S.chain[k].st = "live" /\ S.chain[k].outer = "sub"
                  THEN <<Op("unsub", <<scenario.sel[S.chain[k].stage]>>)>> ELSE <<>>]),
     !.chain = [k \in Keys |->
                IF S.chain[k].st = "live" THEN Closed("off") ELSE S.chain[k]],
     !.result = how]

\* the result stream ends (error or consumer unsubscribe): everything goes
TearDown(S, how) ==
  [S EXCEPT
     !.ops = @ \o Flat([k \in Keys |->
                IF S.chain[k].st = "live" THEN InstUnsubOps(S.chain[k]) ELSE <<>>]),
     !.dropped = @ \o Flat([k \in Keys |-> Drop(S, k)]),
     !.chain = [k \in Keys |->
                IF S.chain[k].st = "live" THEN Closed("off") ELSE S.chain[k]],
     !.result = how]

RootError(S, error) == [TearDown(S, "errored") EXCEPT !.fatal = <<error>>]

\* variant: the result completes as soon as one field stream has completed
ChainCompleteAny(S, k) ==
  [TearDown([S EXCEPT !.chain[k] = Closed("completed")], "completed")
     EXCEPT !.chain[k] = Closed("completed")]

\* a field stream of the root object completes; combineLatest completes
\* when all of them have
ChainComplete(S, k) ==
  LET S1 == [S EXCEPT !.chain[k] = Closed("completed")]
  IN IF \A i \in Keys : S1.chain[i].st = "completed"
       THEN [S1 EXCEPT !.result = "completed"] ELSE S1

\* variant: a snapshot for every field emission, filled or not
RootEmitUngated(S, k, val) ==
  LET slots == [S.slot EXCEPT ![k] = val]
  IN [S EXCEPT !.slot = slots, !.fed = Append(@, k),
               !.snaps = Append(@, buildResponse(S.errors, ObjData(slots)))]

\* variant: the snapshot shows the values held before this emission
RootEmitStale(S, k, val) ==
  LET slots == [S.slot EXCEPT ![k] = val]
      S1 == [S EXCEPT !.slot = slots, !.fed = Append(@, k)]
  IN IF \A i \in Keys : slots[i] # NoVal
       THEN [S1 EXCEPT !.snaps = Append(@, buildResponse(S.errors, ObjData(S.slot)))]
       ELSE S1

\* combinePropsLatest of the root object followed by buildResponse
RootEmit(S, k, val) ==
  LET slots == [S.slot EXCEPT ![k] = val]
      S1 == [S EXCEPT !.slot = slots, !.fed = Append(@, k)]
  IN IF \A i \in Keys : slots[i] # NoVal
       THEN [S1 EXCEPT !.snaps = Append(@, buildResponse(S.errors, ObjData(slots)))]
       ELSE S1

-----------------------------------------------------------------------------
(* Selection-set evaluation at construction / projection time: the          *)
(* resolvers of the selected fields are invoked in order.  A resolver that  *)
(* throws makes completeValueCatchingError call handleFieldError at once.   *)

RECURSIVE executeFields(_, _, _, _, _)
executeFields(S, path, fields, sourceValue, i) ==
  IF i > Len(fields) THEN [S |-> S, thrown |-> FALSE, error |-> Err(<<>>, "")]
  ELSE
    LET responseName == fields[i]
        S1 == IF hasFieldDef(responseName) THEN Invoke(S, responseName, sourceValue)
              ELSE S
    IN IF scenario.resolver[responseName] = "throws"
         THEN LET h == handleFieldError(S1, Err(<<>>, "throw"),
                          Append(path, responseName), FieldTypes[responseName])
              IN IF h.thrown THEN h
                 ELSE executeFields(h.S, path, fields, sourceValue, i + 1)
         ELSE executeFields(S1, path, fields, sourceValue, i + 1)

\* variant: write mode resolves every field when the tree is built
executeFieldsAtOnce(S, fields, sourceValue) ==
  executeFields(S, <<>>, fields, sourceValue, 1)

\* write mode: only the first field is resolved when the tree is built
executeFieldsSerially(S, fields, sourceValue) ==
  executeFields(S, <<>>, SubSeq(fields, 1, IF fields = <<>> THEN 0 ELSE 1),
                sourceValue, 1)

executeOperation(S) ==
  LET x == IF scenario.operation = "mutation"
             THEN executeFieldsSerially(S, scenario.sel, "root")
             ELSE executeFields(S, <<>>, scenario.sel, "root", 1)
  IN IF x.thrown
       THEN [S |-> [x.S EXCEPT !.errors = Append(@, x.error)], dataNull |-> TRUE]
       ELSE [S |-> x.S, dataNull |-> FALSE]

-----------------------------------------------------------------------------
(* The cascade.  Chain k feeds response key k.  In read mode it has the one *)
(* stage k; in write mode it runs through stages 1..k, each stage waiting   *)
(* for the first value of the field before (mapToFirstValue).               *)

RECURSIVE Call(_, _, _, _, _),
          StartStage(_, _), OuterNext(_, _, _), OuterComplete(_, _),
          FieldEmit(_, _, _), EmitThenComplete(_, _, _), FieldCatch(_, _, _),
          SubscribeKids(_, _, _), KidNext(_, _, _, _), KidEmit(_, _, _, _),
          KidDone(_, _, _), KidCatch(_, _, _, _), ItemCatch(_, _, _, _),
          SubscribeItem(_, _, _), SubscribeKid(_, _, _),
          StartFields(_, _, _), Settle(_, _)

\* the field stream of chain k's current stage emits val
FieldEmit(S, k, val) ==
  LET c == S.chain[k]
  IN IF c.stage < k
       THEN \* take(1) passes the first value on, switchMap resolves the next
            \* field and subscribes to it, then take(1) unsubscribes upstream
            LET next == [IdleChain EXCEPT !.stage = c.stage + 1, !.st = "live"]
                S1 == Call("StartStage", [S EXCEPT !.chain[k] = next], k, 0, NoVal)
            IN [S1 EXCEPT !.ops = @ \o InstUnsubOps(c)]
       ELSE RootEmit(S, k, val)

\* a field stream that emits one value and completes (of(...))
EmitThenComplete(S, k, val) ==
  LET j == S.chain[k].stage
      S1 == Call("FieldEmit", [S EXCEPT !.chain[k].outer = "done",
                                !.chain[k].par = "none", !.chain[k].pend = NoPend,
                                !.chain[k].kids = <<>>, !.chain[k].items = <<>>], k, 0, val)
  IN IF SameStage(S1, k, j) THEN ChainComplete(S1, k) ELSE S1

\* variant: the absorbed failure is replaced by null and the field's stream
\* goes on: it does not complete and its resolver's stream stays subscribed
FieldCatchKeepsOpen(S, k, rawError) ==
  LET c == S.chain[k]
      f == scenario.sel[c.stage]
      h == handleFieldError(S, rawError, <<f>>, FieldTypes[f])
  IN IF h.thrown THEN RootError(h.S, h.error)
     ELSE Call("FieldEmit", UnsubInner(h.S, k), k, 0, NullVal)

\* catchError of completeValueCatchingError
FieldCatch(S, k, rawError) ==
  LET c == S.chain[k]
      f == scenario.sel[c.stage]
      h == handleFieldError(S, rawError, <<f>>, FieldTypes[f])
      S1 == [h.S EXCEPT !.ops = @ \o InstUnsubOps(c),
                        !.dropped = @ \o Drop(S, k),
                        !.chain[k].outer = "done",
                        !.chain[k].par = "none", !.chain[k].pend = NoPend,
                        !.chain[k].kids = <<>>, !.chain[k].items = <<>>]
  IN IF h.thrown THEN RootError(S1, h.error)
     ELSE Call("EmitThenComplete", S1, k, 0, NullVal)

\* the resolver's stream completes
OuterComplete(S, k) ==
  LET S1 == [S EXCEPT !.chain[k].outer = "done"]
  IN IF S1.chain[k].par = "none" /\ S1.chain[k].pend = NoPend
       THEN ChainComplete(S1, k) ELSE S1

\* the resolver's stream emits raw: switchMap(res => completeValue(...))
OuterNext(S, k, raw) ==
  LET f == scenario.sel[S.chain[k].stage]
      completed == completeValue(FieldTypes[f], raw)
  IN CASE completed.kind = "throw" ->
            Call("FieldCatch", S, k, 0, Err(<<>>, completed.why))
       [] completed.kind = "of" ->
            Call("FieldEmit", UnsubInner(S, k), k, 0, completed.val)
       [] completed.kind = "list" ->
            \* completeListValue: of([]) for no items, else combineLatest
            \* of the items' streams
            IF Items(raw) = <<>>
              THEN Call("FieldEmit", UnsubInner(S, k), k, 0, ListVal(<<>>))
              ELSE LET kids == [i \in 1..Len(Items(raw)) |->
                                  [st |-> "idle", val |-> NoVal]]
                   IN Call("SubscribeKids",
                           [UnsubInner(S, k) EXCEPT !.chain[k].par = raw,
                                                    !.chain[k].items = Items(raw),
                                                    !.chain[k].kids = kids], k, 1, NoVal)
       [] completed.kind = "await" ->
            \* the inner stream is from(promise).pipe(switchMap(...))
            [UnsubInner(S, k) EXCEPT
               !.chain[k].pend = [raw |-> raw, phase |-> completed.why]]
       [] OTHER -> Call("StartFields", S, k, 0, raw)

\* variant: the resolvers of a sub-selection are invoked for the first
\* parent value of the execution only, later parents reuse their streams
StartFieldsMemo(S, k, raw) ==
  LET f == scenario.sel[S.chain[k].stage]
      x == IF \E i \in 1..Len(scenario.sub) : S.ncalls[scenario.sub[i]] > 0
             THEN [S |-> S, thrown |-> FALSE, error |-> Err(<<>>, "")]
             ELSE executeFields(S, <<f>>, scenario.sub, raw, 1)
  IN IF x.thrown THEN Call("FieldCatch", x.S, k, 0, x.error)
     ELSE IF scenario.sub = <<>> THEN UnsubInner(x.S, k)
     ELSE LET kids == [i \in 1..Len(scenario.sub) |-> [st |-> "idle", val |-> NoVal]]
          IN Call("SubscribeKids", [UnsubInner(x.S, k) EXCEPT !.chain[k].par = raw,
                                      !.chain[k].kids = kids], k, 1, NoVal)

\* collectAndExecuteSubfields for the object raw, as the new inner stream
StartFields(S, k, raw) ==
  LET f == scenario.sel[S.chain[k].stage]
      x == executeFields(S, <<f>>, scenario.sub, raw, 1)
  IN IF x.thrown THEN Call("FieldCatch", x.S, k, 0, x.error)
     ELSE IF scenario.sub = <<>>
       THEN \* combineLatest of no streams completes without a value
            UnsubInner(x.S, k)
     ELSE LET S1 == UnsubInner(x.S, k)
              kids == [i \in 1..Len(scenario.sub) |->
                         [st |-> "idle", val |-> NoVal]]
          IN Call("SubscribeKids", [S1 EXCEPT !.chain[k].par = raw,
                                      !.chain[k].kids = kids], k, 1, NoVal)

\* the Promise chain k waits for is fulfilled: the runtime type is checked
\* and the value completed as an object, or the outcome of isTypeOf is looked
\* at
Settle(S, k) ==
  LET raw == S.chain[k].pend.raw
      S1 == [S EXCEPT !.chain[k].pend = NoPend]
      valid == ensureValidRuntimeType(resolveType(raw))
      completed == IF S.chain[k].pend.phase = "isTypeOf"
                     THEN (IF isTypeOf(raw) THEN SubFields ELSE Throw("isTypeOf"))
                   ELSE IF valid.kind = "throw" THEN valid
                   ELSE completeObjectValue(raw)
  IN CASE completed.kind = "throw" ->
            Call("FieldCatch", S1, k, 0, Err(<<>>, completed.why))
       [] completed.kind = "await" ->
            [S EXCEPT !.chain[k].pend.phase = completed.why]
       [] OTHER -> Call("StartFields", S1, k, 0, raw)

\* chain k subscribes to the field stream of its current stage
StartStage(S, k) ==
  LET j == S.chain[k].stage
      f == scenario.sel[j]
      eager == scenario.operation = "query" \/ j = 1
      b == scenario.resolver[f]
      S1 == IF eager \/ ~hasFieldDef(f) THEN S ELSE Invoke(S, f, "root")
  IN CASE ~hasFieldDef(f) -> Call("EmitThenComplete", S1, k, 0, UndefVal)
       [] b = "throws" ->
            IF eager THEN Call("EmitThenComplete", S1, k, 0, NullVal)
            ELSE LET h == handleFieldError(S1, Err(<<>>, "throw"), <<f>>, FieldTypes[f])
                 IN IF h.thrown THEN RootError(h.S, h.error)
                    ELSE Call("EmitThenComplete", h.S, k, 0, NullVal)
       [] b \in {"stream", "promise"} ->
            CASE S1.src[<<f>>] = "open" ->
                   Log([S1 EXCEPT !.chain[k].outer = "sub"], "sub", <<f>>)
              [] S1.src[<<f>>] = "errored" -> Call("FieldCatch", S1, k, 0, Err(<<>>, "stream"))
              [] OTHER -> Call("OuterComplete", S1, k, 0, NoVal)
       [] OTHER ->
            LET S2 == Call("OuterNext", S1, k, 0, b)
            IN IF SameStage(S2, k, j) THEN Call("OuterComplete", S2, k, 0, NoVal) ELSE S2

\* the inner combinePropsLatest / combineLatest subscribes to its inputs in
\* order
SubscribeKids(S, k, i) ==
  IF i > Len(S.chain[k].kids) THEN S
  ELSE
    LET j == S.chain[k].stage
        p == S.chain[k].par
        S1 == Call(IF IsList(S.chain[k]) THEN "SubscribeItem" ELSE "SubscribeKid",
                   S, k, i, NoVal)
    IN IF SameInner(S1, k, j, p) THEN Call("SubscribeKids", S1, k, i + 1, NoVal) ELSE S1

\* input i is the stream of a list item: of(item) piped through
\* completeValue, so the item is completed when combineLatest subscribes
SubscribeItem(S, k, i) ==
  LET j == S.chain[k].stage
      p == S.chain[k].par
      f == scenario.sel[j]
      item == completeValue(FieldTypes[f].ofType, S.chain[k].items[i])
  IN CASE item.kind = "throw" -> Call("ItemCatch", S, k, i, Err(<<>>, item.why))
       [] item.kind = "of" ->
            LET S2 == Call("KidEmit", S, k, i, item.val)
            IN IF SameInner(S2, k, j, p) THEN Call("KidDone", S2, k, i, NoVal) ELSE S2
       [] OTHER ->
            LET x == executeFields(S, <<f, IndexKey(i)>>, scenario.sub,
                                   S.chain[k].items[i], 1)
            IN IF x.thrown THEN Call("ItemCatch", x.S, k, i, x.error)
               ELSE Call("SubscribeKid", x.S, k, i, NoVal)

\* input i is a field stream of the sub-selection (of the object, or of the
\* list item, the inner stream was built from)
SubscribeKid(S, k, i) ==
  LET c == S.chain[k]
      b == resolverFor(KidName(c, i), KidSource(c, i)[2])
      null == IF IsList(c) THEN ObjVal(<<NullVal>>) ELSE NullVal
  IN CASE b = "throws" ->
            LET S2 == Call("KidEmit", S, k, i, null)
            IN IF SameInner(S2, k, c.stage, c.par) THEN Call("KidDone", S2, k, i, NoVal)
               ELSE S2
       [] b \in {"stream", "promise"} ->
            CASE S.src[KidSource(c, i)] = "open" ->
                   Log([S EXCEPT !.chain[k].kids[i].st = "sub"], "sub", KidSource(c, i))
              [] S.src[KidSource(c, i)] = "errored" ->
                   Call("KidCatch", S, k, i, Err(<<>>, "stream"))
              [] OTHER -> Call("KidDone", S, k, i, NoVal)
       [] OTHER ->
            LET S2 == Call("KidNext", S, k, i, b)
            IN IF SameInner(S2, k, c.stage, c.par) THEN Call("KidDone", S2, k, i, NoVal)
               ELSE S2

\* a stream of the sub-selection emits raw
KidNext(S, k, i, raw) ==
  LET c == S.chain[k]
      completed == completeValue(FieldTypes[KidName(c, i)], raw)
  IN IF completed.kind = "throw"
       THEN Call("KidCatch", S, k, i, Err(<<>>, completed.why))
       ELSE Call("KidEmit", S, k, i,
                 IF IsList(c) THEN ObjVal(<<completed.val>>) ELSE completed.val)

\* variant: a list is emitted as soon as one item has a value, holding only
\* the items that have one
KidEmitCompact(S, k, i, val) ==
  LET S1 == [S EXCEPT !.chain[k].kids[i].val = val]
      kids == S1.chain[k].kids
      all == [n \in 1..Len(kids) |-> kids[n].val]
  IN IF IsList(S1.chain[k])
       THEN Call("FieldEmit", S1, k, 0, ListVal(SelectSeq(all, LAMBDA v : v # NoVal)))
     ELSE IF \A n \in 1..Len(kids) : kids[n].val # NoVal
       THEN Call("FieldEmit", S1, k, 0, ObjVal(all))
       ELSE S1

\* inner combinePropsLatest / combineLatest: emit once every input has a value
KidEmit(S, k, i, val) ==
  LET S1 == [S EXCEPT !.chain[k].kids[i].val = val]
      kids == S1.chain[k].kids
      all == [n \in 1..Len(kids) |-> kids[n].val]
  IN IF \A n \in 1..Len(kids) : kids[n].val # NoVal
       THEN Call("FieldEmit", S1, k, 0,
                 IF IsList(S1.chain[k]) THEN ListVal(all) ELSE ObjVal(all))
       ELSE S1

\* variant: an input that completes without a value completes the inner
\* object at once and releases the other inputs
KidDoneEndsEmpty(S, k, i) ==
  LET S1 == [S EXCEPT !.chain[k].kids[i].st = "done"]
      kids == S1.chain[k].kids
  IN IF kids[i].val = NoVal \/ \A n \in 1..Len(kids) : kids[n].st = "done"
       THEN LET S2 == UnsubInner(S1, k)
            IN IF S2.chain[k].outer = "done" THEN ChainComplete(S2, k) ELSE S2
       ELSE S1

\* a stream of the sub-selection completes
KidDone(S, k, i) ==
  LET S1 == [S EXCEPT !.chain[k].kids[i].st = "done"]
      kids == S1.chain[k].kids
  IN IF \A n \in 1..Len(kids) : kids[n].st = "done"
       THEN LET S2 == [S1 EXCEPT !.chain[k].par = "none", !.chain[k].kids = <<>>, !.chain[k].items = <<>>]
            IN IF S2.chain[k].outer = "done" THEN ChainComplete(S2, k) ELSE S2
       ELSE S1

\* catchError of a sub-selection field
KidCatch(S, k, i, rawError) ==
  LET c == S.chain[k]
      f == scenario.sel[c.stage]
      name == KidName(c, i)
      path == IF IsList(c) THEN <<f, IndexKey(i), name>> ELSE <<f, name>>
      h == handleFieldError(S, rawError, path, FieldTypes[name])
      wasSub == c.kids[i].st = "sub"
      S1 == [h.S EXCEPT !.chain[k].kids[i].st = "done"]
      S2 == IF wasSub THEN Log(S1, "unsub", KidSource(c, i)) ELSE S1
      null == IF IsList(c) THEN ObjVal(<<NullVal>>) ELSE NullVal
  IN IF h.thrown
       THEN Call(IF IsList(c) THEN "ItemCatch" ELSE "FieldCatch", S2, k, i, h.error)
     ELSE LET S3 == Call("KidEmit", S2, k, i, null)
          IN IF SameInner(S3, k, c.stage, c.par) THEN Call("KidDone", S3, k, i, NoVal) ELSE S3

\* variant: a failing item fails the whole list, whatever the item type
ItemCatchEscapes(S, k, i, rawError) ==
  LET c == S.chain[k]
      f == scenario.sel[c.stage]
      S1 == [S EXCEPT !.chain[k].kids[i].st = "done"]
  IN Call("FieldCatch", S1, k, 0, locatedError(rawError, <<f, IndexKey(i)>>))

\* catchError of a list item
ItemCatch(S, k, i, rawError) ==
  LET c == S.chain[k]
      f == scenario.sel[c.stage]
      h == handleFieldError(S, rawError, <<f, IndexKey(i)>>, FieldTypes[f].ofType)
      S1 == [h.S EXCEPT !.chain[k].kids[i].st = "done"]
  IN IF h.thrown THEN Call("FieldCatch", S1, k, 0, h.error)
     ELSE LET S2 == Call("KidEmit", S1, k, i, NullVal)
          IN IF SameInner(S2, k, c.stage, c.par) THEN Call("KidDone", S2, k, i, NoVal) ELSE S2

\* one operator of the cascade applied by name: x is the value, raw value or
\* error it is given, i the index in the sub-selection
Call(op, S, k, i, x) ==
  CASE op = "FieldEmit" -> FieldEmit(S, k, x)
    [] op = "EmitThenComplete" -> EmitThenComplete(S, k, x)
    [] op = "FieldCatch" -> FieldCatch(S, k, x)
    [] op = "OuterComplete" -> OuterComplete(S, k)
    [] op = "OuterNext" -> OuterNext(S, k, x)
    [] op = "StartStage" -> StartStage(S, k)
    [] op = "SubscribeKids" -> SubscribeKids(S, k, i)
    [] op = "KidNext" -> KidNext(S, k, i, x)
    [] op = "KidEmit" -> KidEmit(S, k, i, x)
    [] op = "KidDone" -> KidDone(S, k, i)
    [] op = "ItemCatch" -> ItemCatch(S, k, i, x)
    [] op = "SubscribeItem" -> SubscribeItem(S, k, i)
    [] op = "SubscribeKid" -> SubscribeKid(S, k, i)
    [] op = "StartFields" -> StartFields(S, k, x)
    [] op = "Settle" -> Settle(S, k)
    [] OTHER -> KidCatch(S, k, i, x)

-----------------------------------------------------------------------------
(* Delivery of one notification of a hot source to its subscribers, in      *)
(* subscription order (chain order).  subs is the subscriber list when the  *)
(* notification starts; a subscriber torn down meanwhile gets nothing.      *)

Range(seq) == {seq[i] : i \in 1..Len(seq)}
IndexOf(seq, x) == CHOOSE i \in 1..Len(seq) : seq[i] = x

RootSubscribed(S, k, f) ==
  LET c == S.chain[k]
  IN c.st = "live" /\ c.outer = "sub" /\ scenario.sel[c.stage] = f

KidIndex(c, s) ==
  IF IsList(c) THEN IndexOf(c.items, s[2]) ELSE IndexOf(scenario.sub, s[1])

KidSubscribed(S, k, name, p) ==
  LET c == S.chain[k]
  IN /\ c.st = "live" /\ name \in Range(scenario.sub)
     /\ IF IsList(c) THEN p \in Range(c.items) /\ name = scenario.sub[1]
        ELSE c.par = p
     /\ c.kids[KidIndex(c, <<name, p>>)].st = "sub"

Subscribed(S, k, s) ==
  IF Len(s) = 1 THEN RootSubscribed(S, k, s[1]) ELSE KidSubscribed(S, k, s[1], s[2])

Notify(S, k, s, ev, raw) ==
  IF Len(s) = 1
    THEN CASE ev = "next" -> Call("OuterNext", S, k, 0, raw)
           [] ev = "error" ->
                Call("FieldCatch", [S EXCEPT !.chain[k].outer = "done"], k, 0,
                     Err(<<>>, "stream"))
           [] OTHER -> Call("OuterComplete", S, k, 0, NoVal)
    ELSE LET i == KidIndex(S.chain[k], s)
         IN CASE ev = "next" -> Call("KidNext", S, k, i, raw)
              [] ev = "error" ->
                   Call("KidCatch", [S EXCEPT !.chain[k].kids[i].st = "done"], k, i,
                        Err(<<>>, "stream"))
              [] OTHER -> Call("KidDone", S, k, i, NoVal)

RECURSIVE Deliver(_, _, _, _, _, _)
Deliver(S, subs, s, ev, raw, k) ==
  IF k > N THEN S
  ELSE IF k \in subs /\ Subscribed(S, k, s)
    THEN Deliver(Notify(S, k, s, ev, raw), subs, s, ev, raw, k + 1)
    ELSE Deliver(S, subs, s, ev, raw, k + 1)

\* combineLatest subscribes to the chains in key order
RECURSIVE SubscribeAll(_, _)
SubscribeAll(S, k) ==
  IF N = 0 THEN [S EXCEPT !.result = "completed"]
  ELSE IF k > N \/ S.result # "subscribed" THEN S
  ELSE LET first == IF scenario.operation = "mutation" THEN 1 ELSE k
           c == [IdleChain EXCEPT !.stage = first, !.st = "live"]
       IN SubscribeAll(Call("StartStage", [S EXCEPT !.chain[k] = c], k, 0, NoVal), k + 1)

-----------------------------------------------------------------------------
(* Actions.                                                                 *)

S0 == [chain |-> chain, slot |-> slot, errors |-> errors, fatal |-> fatal,
       ops |-> <<>>, snaps |-> <<>>, calls |-> <<>>, fed |-> <<>>,
       result |-> status, src |-> src, ncalls |-> ncalls, dropped |-> dropped]

\* subscription counts after the operations of one step; a source that
\* terminated in the step has dropped its subscribers
RECURSIVE ApplyOps(_, _)
ApplyOps(count, log) ==
  IF log = <<>> THEN count
  ELSE LET o == Head(log)
       IN ApplyOps([count EXCEPT ![o.s] = IF o.op = "sub" THEN @ + 1 ELSE @ - 1],
                   Tail(log))

NoEvent == [ev |-> "none", s |-> <<>>, raw |-> "none"]
Event(ev, s, raw) == [ev |-> ev, s |-> s, raw |-> raw]

Commit(S) ==
  /\ nsub' = [s \in Sources |->
                IF S.src[s] = "open" THEN ApplyOps(nsub, S.ops)[s] ELSE 0]
  /\ chain' = S.chain /\ slot' = S.slot /\ errors' = S.errors
  /\ fatal' = S.fatal /\ ops' = S.ops /\ snaps' = S.snaps
  /\ calls' = S.calls /\ fed' = S.fed /\ status' = S.result /\ src' = S.src
  /\ ncalls' = S.ncalls
  /\ dropped' = S.dropped
  /\ total' = total + Len(S.snaps)
  /\ UNCHANGED <<typeCall, typeResult>>

\* the streams the resolvers of this scenario can return
UsedSources ==
  {<<f>> : f \in {g \in Range(scenario.sel) :
                     scenario.resolver[g] \in {"stream", "promise"}}}
  \cup {s \in EmitterFieldNames \X ParentRaw :
          s[1] \in Range(scenario.sub)
          /\ resolverFor(s[1], s[2]) \in {"stream", "promise"}}

\* Default runtime-type resolution.  A possible type is named by its place
\* in the declaration order; isTypeOfs gives, per possible type, what its
\* isTypeOf does for the value: the type has none ("absent"), it returns a
\* boolean, or a Promise of one.  value tells what the value is like: an
\* object without __typename, an object whose __typename is the name of
\* type 1, an object whose __typename is not a string, or no object.
MaxTypes == 3
IsTypeOfKinds == {"absent", "true", "false", "promiseTrue", "promiseFalse"}
ValueKinds == {"object", "typenamed", "oddTypename", "primitive"}
TypeCalls ==
  [value : ValueKinds,
   isTypeOfs : UNION {[1..n -> IsTypeOfKinds] : n \in 0..MaxTypes}]
NoTypeCall == [value |-> "none", isTypeOfs |-> <<>>]

NotCalled == [kind |-> "notCalled", type |-> 0, promised |-> <<>>]
Returned(kind, type) == [kind |-> kind, type |-> type, promised |-> <<>>]

\* promisedIsTypeOfResults[i] = isTypeOfResult: the array grows to length i,
\* the places in between stay empty
SetAt(promised, i, x) ==
  [n \in 1..i |-> IF n = i THEN x ELSE IF n <= Len(promised) THEN promised[n] ELSE "empty"]

\* variant: a type whose isTypeOf returns true at once waits for the
\* Promises of the types declared before it
RECURSIVE testPossibleTypesInOrder(_, _, _)
testPossibleTypesInOrder(isTypeOfs, i, promised) ==
  IF i > Len(isTypeOfs) THEN [type |-> 0, promised |-> promised]
  ELSE IF isTypeOfs[i] \in {"promiseTrue", "promiseFalse"}
    THEN testPossibleTypesInOrder(isTypeOfs, i + 1, SetAt(promised, i, isTypeOfs[i]))
  ELSE IF isTypeOfs[i] = "true"
    THEN (IF promised = <<>> THEN [type |-> i, promised |-> promised]
          ELSE [type |-> 0, promised |-> SetAt(promised, i, "promiseTrue")])
  ELSE testPossibleTypesInOrder(isTypeOfs, i + 1, promised)

\* the for loop over the possible types, from type i on: the type it
\* returns (0 for none) and the Promises collected until then
RECURSIVE testPossibleTypes(_, _, _)
testPossibleTypes(isTypeOfs, i, promised) ==
  IF i > Len(isTypeOfs) THEN [type |-> 0, promised |-> promised]
  ELSE IF isTypeOfs[i] \in {"promiseTrue", "promiseFalse"}
    THEN testPossibleTypes(isTypeOfs, i + 1, SetAt(promised, i, isTypeOfs[i]))
  ELSE IF isTypeOfs[i] = "true" THEN [type |-> i, promised |-> promised]
  ELSE testPossibleTypes(isTypeOfs, i + 1, promised)

\* Promise.all(promisedIsTypeOfResults).then(...): the first place whose
\* result is true (0, for undefined, when there is none)
firstTrue(promised) ==
  IF \E i \in 1..Len(promised) : promised[i] = "promiseTrue"
    THEN CHOOSE i \in 1..Len(promised) :
           /\ promised[i] = "promiseTrue"
           /\ \A n \in 1..(i - 1) : promised[n] # "promiseTrue"
    ELSE 0

defaultResolveTypeFn(value, isTypeOfs) ==
  IF value = "typenamed" THEN Returned("name", 1)
  ELSE LET tested == testPossibleTypes(isTypeOfs, 1, <<>>)
       IN IF tested.type # 0 THEN Returned("type", tested.type)
          ELSE IF Len(tested.promised) > 0
            THEN [kind |-> "promise", type |-> 0, promised |-> tested.promised]
          ELSE Returned("undefined", 0)

\* completeAbstractValue calls defaultResolveTypeFn
ResolveTypeCalled ==
  /\ typeResult = NotCalled
  /\ typeResult' = defaultResolveTypeFn(typeCall.value, typeCall.isTypeOfs)
  /\ UNCHANGED <<scenario, status, dataNull, src, chain, slot, errors, fatal,
                 ops, snaps, calls, fed, lastRaw, ncalls, total, nsub, early,
                 event, firstRun, resubs, nEvents, typeCall, dropped>>

\* the Promises of the isTypeOf results are all fulfilled
IsTypeOfsFulfilled ==
  /\ typeResult.kind = "promise"
  /\ typeResult' = Returned("fulfilled", firstTrue(typeResult.promised))
  /\ UNCHANGED <<scenario, status, dataNull, src, chain, slot, errors, fatal,
                 ops, snaps, calls, fed, lastRaw, ncalls, total, nsub, early,
                 event, firstRun, resubs, nEvents, typeCall, dropped>>

\* the state after construction; states is what the streams the resolvers
\* return can be like when the run starts
InitExecution(scenarios, states) ==
  /\ scenario \in scenarios
  /\ status = "none"
  /\ dataNull = FALSE
  /\ src \in {[s \in Sources |-> IF s \in UsedSources THEN g[s] ELSE "open"] :
                g \in [UsedSources -> states]}
  /\ chain = [k \in 1..Len(scenario.sel) |-> IdleChain]
  /\ slot = [k \in 1..Len(scenario.sel) |-> NoVal]
  /\ errors = <<>>
  /\ fatal = <<>>
  /\ ops = <<>> /\ snaps = <<>> /\ calls = <<>> /\ fed = <<>>
  /\ lastRaw = [s \in Sources |-> "none"]
  /\ ncalls = [f \in FieldNames |-> 0]
  /\ total = 0
  /\ nsub = [s \in Sources |-> 0]
  /\ early = FALSE
  /\ event = NoEvent
  /\ firstRun = <<>>
  /\ resubs = 0
  /\ nEvents = 0
  /\ dropped = <<>>

InitFrom(scenarios, states) ==
  /\ InitExecution(scenarios, states)
  /\ typeCall = NoTypeCall
  /\ typeResult = NotCalled

InitWith(scenarios) == InitFrom(scenarios, {"open"})

Init == InitWith(Scenarios)

\* variant: the result stream is hot, its resolver streams are subscribed
\* as soon as it is built
ExecuteEager ==
  /\ status = "none"
  /\ LET x == executeOperation(S0)
         S1 == [x.S EXCEPT !.result = "subscribed"]
     IN /\ Commit([(IF x.dataNull THEN S1 ELSE SubscribeAll(S1, 1))
                     EXCEPT !.result = "built"])
        /\ dataNull' = x.dataNull
  /\ event' = NoEvent
  /\ UNCHANGED <<scenario, firstRun, resubs, lastRaw, early, nEvents>>

\* variant: the request is executed without being validated
graphqlImplUnchecked(request) == <<>>

\* the errors graphqlImpl (validateSchema, parse, validate) and executeImpl
\* (buildExecutionContext) return early with
graphqlImpl(request) ==
  IF request \in Requests \ {"ok"} THEN <<Err(<<>>, request)>> ELSE <<>>

\* graphql(args) and execute(args): graphqlImpl and executeImpl build the
\* result stream
Execute ==
  /\ status = "none"
  /\ IF graphqlImpl(scenario.request) # <<>>
       THEN /\ Commit([S0 EXCEPT !.result = "built"])
            /\ dataNull' = dataNull
     ELSE IF scenario.request \in DispatcherFaults
       THEN \* thrown before the try block: execute returns no stream
            /\ Commit([S0 EXCEPT !.result = "thrown"])
            /\ dataNull' = dataNull
       ELSE LET x == executeOperation(S0)
            IN /\ Commit([x.S EXCEPT !.result = "built"])
               /\ dataNull' = x.dataNull
  /\ event' = NoEvent
  /\ UNCHANGED <<scenario, firstRun, resubs, lastRaw, early, nEvents>>

\* the consumer subscribes to the result stream
Subscribe ==
  /\ status = "built"
  /\ IF graphqlImpl(scenario.request) # <<>>
       THEN Commit([S0 EXCEPT !.snaps = <<[keys |-> {"errors"}, data |-> NullData,
                                           errors |-> graphqlImpl(scenario.request)]>>,
                              !.result = "completed"])
     ELSE IF dataNull
       THEN Commit([S0 EXCEPT !.snaps = <<buildResponse(errors, NullData)>>,
                              !.result = "completed"])
       ELSE Commit(SubscribeAll([S0 EXCEPT !.result = "subscribed"], 1))
  /\ event' = NoEvent
  /\ UNCHANGED <<scenario, firstRun, resubs, dataNull, lastRaw, early, nEvents>>

\* the consumer unsubscribes from the result stream
Unsubscribe ==
  /\ status = "subscribed"
  /\ Commit(TearDown(S0, "unsubscribed"))
  /\ event' = NoEvent
  /\ UNCHANGED <<scenario, firstRun, resubs, dataNull, lastRaw, early, nEvents>>

\* a second, independent subscription to the same result stream, after the
\* first one has ended
Resubscribe ==
  /\ status \in {"completed", "errored"} /\ resubs = 0
  /\ LET fresh == [S0 EXCEPT !.chain = [k \in Keys |-> IdleChain],
                             !.slot = [k \in Keys |-> NoVal],
                             !.fatal = <<>>,
                             !.result = "subscribed"]
     IN IF dataNull
          THEN Commit([fresh EXCEPT !.snaps = <<buildResponse(errors, NullData)>>,
                                    !.result = "completed"])
          ELSE Commit(SubscribeAll(fresh, 1))
  /\ firstRun' = snaps
  /\ resubs' = resubs + 1
  /\ event' = NoEvent
  /\ UNCHANGED <<scenario, dataNull, lastRaw, early, nEvents>>

Subscribers(s) == {k \in Keys : Subscribed(S0, k, s)}

\* a resolver's stream emits a value
SourceNext(s, raw) ==
  /\ status # "none" /\ nEvents < MaxEvents
  /\ src[s] = "open"
  /\ Commit(Deliver(S0, Subscribers(s), s, "next", raw, 1))
  /\ lastRaw' = IF status = "subscribed" THEN [lastRaw EXCEPT ![s] = raw] ELSE lastRaw
  /\ early' = (early \/ status = "built")
  /\ event' = Event("next", s, raw)
  /\ nEvents' = nEvents + 1
  /\ UNCHANGED <<scenario, firstRun, resubs, dataNull>>

\* a resolver's stream fails
SourceError(s) ==
  /\ status # "none" /\ nEvents < MaxEvents
  /\ src[s] = "open"
  /\ Commit(Deliver([S0 EXCEPT !.src[s] = "errored"], Subscribers(s), s, "error", "null", 1))
  /\ event' = Event("error", s, "none")
  /\ nEvents' = nEvents + 1
  /\ UNCHANGED <<scenario, firstRun, resubs, dataNull, lastRaw, early>>

\* a resolver's stream completes
SourceComplete(s) ==
  /\ status # "none" /\ nEvents < MaxEvents
  /\ src[s] = "open"
  /\ Commit(Deliver([S0 EXCEPT !.src[s] = "completed"], Subscribers(s), s, "complete", "null", 1))
  /\ event' = Event("complete", s, "none")
  /\ nEvents' = nEvents + 1
  /\ UNCHANGED <<scenario, firstRun, resubs, dataNull, lastRaw, early>>

\* a Promise returned by a resolver is fulfilled with raw: from(promise)
\* sends the value and completes
PromiseResolve(s, raw) ==
  /\ status = "subscribed" /\ nEvents < MaxEvents
  /\ scenario.resolver[s[1]] = "promise" /\ src[s] = "open"
  /\ Subscribers(s) # {}
  /\ LET S1 == Deliver([S0 EXCEPT !.src[s] = "completed"], Subscribers(s), s, "next", raw, 1)
     IN Commit(Deliver(S1, {k \in Keys : Subscribed(S1, k, s)}, s, "complete", "null", 1))
  /\ lastRaw' = [lastRaw EXCEPT ![s] = raw]
  /\ event' = Event("next", s, raw)
  /\ nEvents' = nEvents + 1
  /\ UNCHANGED <<scenario, firstRun, resubs, dataNull, early>>

\* a Promise returned by a resolver is rejected
PromiseReject(s) ==
  /\ status = "subscribed" /\ nEvents < MaxEvents
  /\ scenario.resolver[s[1]] = "promise" /\ src[s] = "open"
  /\ Subscribers(s) # {}
  /\ Commit(Deliver([S0 EXCEPT !.src[s] = "errored"], Subscribers(s), s, "error", "null", 1))
  /\ event' = Event("error", s, "none")
  /\ nEvents' = nEvents + 1
  /\ UNCHANGED <<scenario, firstRun, resubs, dataNull, lastRaw, early>>

Without(seq, n) == SubSeq(seq, 1, n - 1) \o SubSeq(seq, n + 1, Len(seq))

\* variant: from(promise) passes the value on although its subscriber has
\* been unsubscribed
SettleDroppedUnchecked(S, n) ==
  LET d == S.dropped[n]
  IN Call("Settle", [S EXCEPT !.dropped = Without(@, n),
                              !.chain[d.k].pend = [raw |-> d.raw, phase |-> d.phase]],
          d.k, 0, NoVal)

\* from(promise): the Promise is fulfilled, the subscriber is closed and
\* gets nothing
SettleDropped(S, n) == [S EXCEPT !.dropped = Without(@, n)]

\* a Promise whose subscriber has been unsubscribed is fulfilled
DroppedSettles(n) ==
  /\ n \in 1..Len(dropped)
  /\ Commit(SettleDropped(S0, n))
  /\ event' = Event("dropped", <<scenario.sel[dropped[n].k]>>, dropped[n].raw)
  /\ UNCHANGED <<scenario, firstRun, resubs, dataNull, lastRaw, early, nEvents>>

\* the Promise a completion waits for (the runtime type of an abstract
\* value, the outcome of isTypeOf) is fulfilled
CompletionSettles(k) ==
  /\ status = "subscribed"
  /\ chain[k].st = "live" /\ chain[k].pend # NoPend
  /\ Commit(Call("Settle", S0, k, 0, NoVal))
  /\ event' = Event("settle", <<scenario.sel[chain[k].stage]>>, chain[k].pend.raw)
  /\ UNCHANGED <<scenario, firstRun, resubs, dataNull, lastRaw, early, nEvents>>

Next ==
  \/ Execute
  \/ Subscribe
  \/ Unsubscribe
  \/ \E s \in UsedSources : \E raw \in Emits(s) : SourceNext(s, raw)
  \/ \E s \in UsedSources : SourceError(s)
  \/ \E s \in UsedSources : SourceComplete(s)

Spec == Init /\ [][Next]_vars
SpecRead == InitWith(ReadStreams \cup ReadMixed) /\ [][Next]_vars

\* Cold, deterministic resolvers: plain values (of), throws, and streams that
\* have already failed or completed without a value when they are subscribed.
ColdResolvers ==
  { [f \in FieldNames |->
       IF f \in {"a", "b", "c"} THEN g[f]
       ELSE IF f = "e" THEN "A"
       ELSE IF f = "value" THEN h
       ELSE "v1"] :
    g \in [{"a", "b", "c"} -> {"v1", "throws", "stream"}], h \in {"v1", "stream"} }

ColdScenarios ==
  { Scenario(operation, sel, IF "e" \in Range(sel) THEN <<"value">> ELSE <<>>, resolver) :
      operation \in {"query", "mutation"},
      sel \in {<<"a", "c">>, <<"a", "b">>, <<"c", "e">>},
      resolver \in ColdResolvers }

NextCold ==
  \/ Execute
  \/ Subscribe
  \/ Resubscribe

SpecCold == InitFrom(ColdScenarios, {"errored", "completed"}) /\ [][NextCold]_vars
NextOneShot ==
  \/ Execute
  \/ Subscribe
  \/ Unsubscribe
  \/ \E s \in UsedSources : \E raw \in Emits(s) : PromiseResolve(s, raw)
  \/ \E s \in UsedSources : PromiseReject(s)

SpecOneShot == InitWith(OneShotScenarios) /\ [][NextOneShot]_vars

\* mutations none of whose resolvers returns a stream: plain values and
\* Promises
StrategyResolvers ==
  { [f \in FieldNames \cup AbsentFieldNames |->
       CASE f = "a" -> ra [] f = "b" -> rb [] f = "c" -> rc [] f = "e" -> "A"
         [] f = "value" -> rv
         [] f \in AbsentFieldNames -> "absent" [] OTHER -> "v1"] :
    ra \in {"v1", "promise"}, rb \in {"v2", "promise"}, rc \in {"v1", "promise"},
    rv \in {"v1", "promise"} }
StrategyScenarios ==
  { Scenario("mutation", sel, IF sel[1] = "e" THEN <<"value">> ELSE <<>>, resolver) :
      sel \in {<<"a", "b", "c">>, <<"a", "c">>, <<"e", "c">>},
      resolver \in StrategyResolvers }
SpecStrategies == InitWith(StrategyScenarios) /\ [][NextOneShot]_vars
SpecAlias == InitWith(AliasScenarios) /\ [][Next]_vars
SpecRequest == InitWith(RequestScenarios) /\ [][Next]_vars
SpecNullish == InitWith(NullishScenarios) /\ [][Next]_vars
\* queries whose streams send values that cannot be completed
Failing(scenarios, isTypeOfs, extra) ==
  { [sc EXCEPT !.isTypeOf = p, !.extra = extra] : sc \in scenarios, p \in isTypeOfs }
CompletionScenarios ==
  Failing({ Scenario("query", <<"e", "a">>, <<"value">>, AllStreams) },
          {"sync", "promise"}, ObjectFailRaw \cup LeafFailRaw)
  \cup Failing({ Scenario("query", <<"currentEmitter">>, <<"value">>, AllStreams) },
               {"sync"}, ObjectFailRaw)
  \cup Failing({ Scenario("query", <<"n">>, <<"value", "opt">>, AllStreams) },
               {"promise"}, ObjectFailRaw \cup LeafFailRaw)
  \cup Failing({ Scenario("query", <<"n", "a">>, <<"value">>, AllStreams) },
               {"none"}, AbstractFailRaw)
  \cup Failing({ Scenario("query", <<"tags", "a">>, <<>>, AllStreams),
                 Scenario("query", <<"a", "b">>, <<>>, AllStreams) },
               {"none"}, ListFailRaw \cup LeafFailRaw)

NextCompletion == Next \/ \E k \in Keys : CompletionSettles(k)
SpecCompletion == InitWith(CompletionScenarios) /\ [][NextCompletion]_vars
\* defaultResolveTypeFn on its own: every value kind with every choice of
\* isTypeOf for up to MaxTypes possible types
InitResolveType ==
  /\ InitExecution({Scenario("query", <<"n">>, <<"value">>, AllStreams)}, {"open"})
  /\ typeCall \in TypeCalls
  /\ typeResult = NotCalled
NextResolveType == ResolveTypeCalled \/ IsTypeOfsFulfilled
SpecResolveType == InitResolveType /\ [][NextResolveType]_vars
\* queries over object and abstract fields whose completion waits for a
\* Promise
PendingScenarios ==
  Failing({ Scenario("query", <<"e", "a">>, <<"value">>, AllStreams),
            Scenario("query", <<"n">>, <<"value", "opt">>, AllStreams) },
          {"promise"}, ObjectFailRaw)
  \cup Failing({ Scenario("query", <<"n", "a">>, <<"value">>, With(AllStreams, "a", "v1")) },
               {"none"}, AbstractFailRaw)
NextPending ==
  \/ NextCompletion
  \/ \E n \in 1..MaxEvents : DroppedSettles(n)
SpecPending == InitWith(PendingScenarios) /\ [][NextPending]_vars
SpecDispatch == InitWith(DispatchScenarios) /\ [][Next]_vars
SpecSwitch == InitWith(SwitchScenarios) /\ [][Next]_vars

\* queries over an object field whose nullable sub-field is a stream for
\* one parent and a plain value for the other
StaleScenarios ==
  { Scenario("query", <<"e">>, <<"opt">>, With(AllStreams, "opt", "v1 for A")),
    Scenario("query", <<"e", "a">>, <<"opt">>,
             With(With(AllStreams, "opt", "v1 for A"), "a", "v1")),
    Scenario("query", <<"e", "a">>, <<"opt", "value">>,
             With(With(AllStreams, "opt", "v1 for A"), "value", "v2")) }
SpecStale == InitWith(StaleScenarios) /\ [][Next]_vars

\* queries over an object field, its parent a stream or a plain value, with
\* a second subscription once the first one has ended
InvokeScenarios ==
  { Scenario("query", <<"e", "a">>, <<"value">>,
             With(With(AllStreams, "value", "v1"), "a", "v1")),
    Scenario("query", <<"c", "e">>, <<"value", "opt">>,
             With(With(With(AllStreams, "e", "A"), "c", "v1"), "opt", "v2")),
    Scenario("query", <<"a", "e">>, <<"opt">>,
             With(With(AllStreams, "a", "throws"), "e", "B")) }
NextInvoke == Next \/ Resubscribe
SpecInvoke == InitWith(InvokeScenarios) /\ [][NextInvoke]_vars
SpecEmpty == InitWith(EmptyScenarios) /\ [][Next]_vars
SpecAbsent == InitWith(AbsentScenarios) /\ [][Next]_vars
SpecList == InitWith(ListScenarios) /\ [][Next]_vars
SpecWrite == InitWith(WriteStreams \cup WriteMixed) /\ [][Next]_vars

TypeOK ==
  /\ \A s \in Sources : nsub[s] \in 0..3
  /\ \A s \in Sources : src[s] # "open" => ~ \E k \in Keys : Subscribed(S0, k, s)
  /\ \A s \in Sources : nsub[s] = Cardinality({k \in Keys : Subscribed(S0, k, s)})
  /\ status \in {"none", "built", "subscribed", "completed", "errored",
                 "unsubscribed", "thrown"}
  /\ nEvents \in 0..MaxEvents
  /\ \A k \in Keys : chain[k].st \in {"idle", "live", "completed", "off"}

-----------------------------------------------------------------------------
(* Properties.                                                              *)

IsQuery == scenario.operation = "query"
IsMutation == scenario.operation = "mutation"
KeyOf(f) == IndexOf(scenario.sel, f)
StreamField(f) == scenario.resolver[f] = "stream"

\* after the i-th field-stream emission of the step every key holds a value
AllFilledAfter(i) ==
  \A k \in Keys : slot[k] # NoVal \/ k \in {fed'[n] : n \in 1..i}

\* C1: in read mode the object stream emits nothing until every field stream
\* has emitted once, and from then on exactly one snapshot per emission of a
\* field stream.
C1_CombineGate ==
  [][ (IsQuery /\ ~dataNull') =>
        Len(snaps') = Cardinality({i \in 1..Len(fed') : AllFilledAfter(i)}) ]_vars

C1_Witness ==
  /\ IsQuery /\ N >= 2 /\ total >= 2
  /\ Len(snaps) = 1 /\ Len(fed) = 1

\* the value a leaf field's slot may show, given what its stream last sent
LeafIsLatest(f, val, last, errs) ==
  /\ val.t \in {"leaf", "null"}
  /\ val.t = "leaf" => val.v = last[<<f>>]
  /\ val.t = "null" =>
       \/ last[<<f>>] = "null"
       \/ \E n \in 1..Len(errs) : errs[n].path = <<f>>

LeafSlotIsLatest(f, val) == LeafIsLatest(f, val, lastRaw, errors)

\* the object a live sub-selection with a value at every key has emitted
ObjSlotIsLatest(k, val) ==
  LET c == chain[k]
      full == /\ c.st = "live" /\ c.stage = k /\ c.par # "none"
              /\ \A i \in 1..Len(c.kids) : c.kids[i].val # NoVal
  IN full =>
       /\ val = ObjVal([i \in 1..Len(c.kids) |-> c.kids[i].val])
       /\ \A i \in 1..Len(c.kids) :
            (StreamField(scenario.sub[i]) /\ c.kids[i].val.t = "leaf")
              => c.kids[i].val.v = lastRaw[<<scenario.sub[i], c.par>>]

SlotIsLatest(k, val) ==
  LET f == scenario.sel[k]
  IN /\ val # NoVal
     /\ StreamField(f) =>
          IF isLeafType(FieldTypes[f]) THEN LeafSlotIsLatest(f, val)
          ELSE ObjSlotIsLatest(k, val)
     /\ scenario.resolver[f] \in LeafRaw => val = LeafVal(scenario.resolver[f])
     /\ scenario.resolver[f] = "throws" => val = NullVal

\* C2: a snapshot has every response key, and at each key the most recent
\* value of that key's field stream.
C2_SnapshotIsLatest ==
  \A n \in 1..Len(snaps) :
    ~snaps[n].data.isNull =>
      /\ Len(snaps[n].data.fields) = N
      /\ \A k \in Keys : SlotIsLatest(k, snaps[n].data.fields[k])

C2_Witness ==
  /\ N = 2 /\ total >= 2 /\ Len(snaps) = 1
  /\ snaps[1].data.fields = <<LeafVal("v2"), LeafVal("v1")>>

IsKidSource(s) == Len(s) = 2

\* C3: when an object field's stream emits a new parent, every subscription
\* of the previous parent's sub-selection is released before any subscription
\* for the new parent is made: within one step no release of a sub-selection
\* stream of one parent follows a subscription to a sub-selection stream of
\* another parent.
C3_SwitchCancelsFirst ==
  \A i, j \in 1..Len(ops) :
    (/\ i < j
     /\ IsKidSource(ops[i].s) /\ ops[i].op = "sub"
     /\ IsKidSource(ops[j].s) /\ ops[j].op = "unsub")
      => ops[i].s[2] = ops[j].s[2]

\* C4: once the consumer has unsubscribed no resolver stream has a
\* subscriber, and no snapshot is delivered in that step or after it.
C4_UnsubscribeReleasesAll ==
  status = "unsubscribed" =>
    /\ \A s \in Sources : nsub[s] = 0
    /\ snaps = <<>>

C4_Witness ==
  /\ status = "unsubscribed"
  /\ \E i \in 1..Len(ops) : ops[i].op = "unsub" /\ IsKidSource(ops[i].s)
  /\ \E i \in 1..Len(ops) : ops[i].op = "unsub" /\ ~IsKidSource(ops[i].s)
  /\ total >= 1

\* C5: no resolver stream is subscribed before the consumer subscribes; in
\* read mode the subscribe step subscribes every root field stream; a
\* snapshot only shows values the streams sent after that.
C5_LazySubscription ==
  [][ /\ status' \in {"none", "built"} => \A s \in Sources : nsub'[s] = 0
      /\ (IsQuery /\ status = "built" /\ status' = "subscribed") =>
            \A k \in Keys :
              (StreamField(scenario.sel[k]) /\ src[<<scenario.sel[k]>>] = "open")
                => Op("sub", <<scenario.sel[k]>>) \in Range(ops')
      /\ (IsQuery /\ snaps' # <<>> /\ ~dataNull) =>
            \A n \in 1..Len(snaps') : \A k \in Keys :
              (StreamField(scenario.sel[k]) /\ isLeafType(FieldTypes[scenario.sel[k]]))
                => LeafIsLatest(scenario.sel[k], snaps'[n].data.fields[k],
                                lastRaw', errors')
    ]_vars

C5_Witness ==
  /\ IsQuery /\ early /\ status = "subscribed"
  /\ Len(snaps) = 1 /\ total = 1
  /\ \A k \in Keys : StreamField(scenario.sel[k]) /\ isLeafType(FieldTypes[scenario.sel[k]])

isNullableType(type) == ~isNonNullType(type)
HasErrorAt(errs, path) == \E n \in 1..Len(errs) : errs[n].path = path
IsPrefix(s, u) == Len(s) <= Len(u) /\ SubSeq(u, 1, Len(s)) = s
NewErrors == {errors'[n] : n \in (Len(errors) + 1)..Len(errors')}

\* the stream of root field f fails in this step, with chain k listening
RootStreamFails(k, f) ==
  /\ RootSubscribed(S0, k, f) /\ k = KeyOf(f)
  /\ event'.s = <<f>>
  /\ \/ event'.ev = "error"
     \/ event'.ev = "next" /\ event'.raw = "bad"

FailureOf(e) == IF e.ev = "error" THEN "stream" ELSE "serialize"

\* the resolver of field f has thrown
ResolverThrew(f) == scenario.resolver[f] = "throws" /\ ncalls[f] > 0

\* C6: a nullable field whose resolver throws, whose stream errors or whose
\* value cannot be completed gets null in its slot and its located error
\* appended to errors; the other slots keep their values, the result stream
\* does not fail because of it, and every snapshot showing the null carries
\* the error.
C6_NullableAbsorbs ==
  [][ \A k \in Keys :
        LET f == scenario.sel[k]
            error == Err(<<f>>, FailureOf(event'))
        IN isNullableType(FieldTypes[f]) =>
             /\ RootStreamFails(k, f) =>
                  /\ slot'[k] = NullVal
                  /\ IsPrefix(errors, errors') /\ error \in NewErrors
                  /\ IsQuery => errors' = Append(errors, error)
                  /\ \A j \in Keys \ {k} : slot[j] # NoVal => slot'[j] = slot[j]
                  /\ IsQuery => status' \in {"subscribed", "completed"}
                  /\ fatal' # <<>> => fatal'[1].path # <<f>>
                  /\ (\A j \in Keys : slot'[j] # NoVal) => snaps' # <<>>
                  /\ \A n \in 1..Len(snaps') :
                       /\ snaps'[n].data.fields[k] = NullVal
                       /\ error \in Range(snaps'[n].errors)
             /\ ResolverThrew(f)' =>
                  /\ Err(<<f>>, "throw") \in Range(errors')
                  /\ slot'[k] \in {NoVal, NullVal}
                  /\ (IsQuery /\ status' = "subscribed") => slot'[k] = NullVal
                  /\ fatal' # <<>> => fatal'[1].path # <<f>>
                  /\ \A n \in 1..Len(snaps') :
                       ~snaps'[n].data.isNull =>
                         /\ snaps'[n].data.fields[k] = NullVal
                         /\ Err(<<f>>, "throw") \in Range(snaps'[n].errors)
    ]_vars

C6_Witness ==
  /\ IsQuery /\ scenario.sel = <<"a", "b">> /\ StreamField("a")
  /\ event = Event("next", <<"a">>, "bad")
  /\ Len(snaps) = 1
  /\ snaps[1].data.fields = <<NullVal, LeafVal("v1")>>
  /\ snaps[1].errors = <<Err(<<"a">>, "serialize")>>
  /\ status = "subscribed"
\* the stream of the non-null sub-selection field at index i of chain k fails
KidStreamFails(k, i) ==
  /\ chain[k].st = "live" /\ chain[k].stage = k /\ chain[k].par # "none"
  /\ chain[k].kids[i].st = "sub"
  /\ event'.s = <<scenario.sub[i], chain[k].par>>
  /\ \/ event'.ev = "error"
     \/ event'.ev = "next" /\ event'.raw = "bad"

\* the resolver of the sub-selection field at index i throws for a new parent
KidResolverThrows(k, i) ==
  /\ RootSubscribed(S0, k, scenario.sel[k])
  /\ scenario.resolver[scenario.sub[i]] = "throws"
  /\ event' = Event("next", <<scenario.sel[k]>>, event'.raw)
  /\ event'.raw \in ParentRaw

\* C7: a failing non-null field records nothing of its own: its error goes
\* up to the nearest nullable ancestor, whose slot becomes null and where
\* that one error, located at the failing field, is appended; slots outside
\* the ancestor keep their values and the result stream goes on.
C7_NonNullEscapes ==
  [][ \A k \in Keys : \A i \in 1..Len(scenario.sub) :
        LET f == scenario.sel[k]
            name == scenario.sub[i]
            error == Err(<<f, name>>,
                         IF KidStreamFails(k, i) THEN FailureOf(event') ELSE "throw")
        IN (/\ isObjectType(FieldTypes[f]) /\ isNullableType(FieldTypes[f])
            /\ isNonNullType(FieldTypes[name])
            /\ KidStreamFails(k, i) \/ KidResolverThrows(k, i)) =>
             /\ slot'[k] = NullVal
             /\ IsPrefix(errors, errors') /\ error \in NewErrors
             /\ IsQuery => errors' = Append(errors, error)
             /\ \A j \in Keys \ {k} : slot[j] # NoVal => slot'[j] = slot[j]
             /\ status' # "errored" /\ fatal' = <<>>
             /\ \A n \in 1..Len(snaps') :
                  /\ snaps'[n].data.fields[k] = NullVal
                  /\ snaps'[n].errors = errors'
    ]_vars

C7_Witness ==
  /\ IsQuery /\ scenario.sel = <<"a", "e">> /\ StreamField("value")
  /\ event = Event("error", <<"value", "A">>, "none")
  /\ slot = <<LeafVal("v1"), NullVal>>
  /\ errors = <<Err(<<"e", "value">>, "stream")>>
  /\ Len(snaps) = 1 /\ status = "subscribed"
\* C8: a field of non-null type whose stream emits null raises a non-null
\* violation, so no snapshot shows null at the slot of a non-null field,
\* at the root or inside an object.
C8_NonNullNeverNull ==
  \A n \in 1..Len(snaps) :
    ~snaps[n].data.isNull =>
      \A k \in Keys :
        LET val == snaps[n].data.fields[k]
        IN /\ isNonNullType(FieldTypes[scenario.sel[k]]) => val # NullVal
           /\ val.t = "obj" =>
                \A i \in 1..Len(val.kv) :
                  isNonNullType(FieldTypes[scenario.sub[i]]) => val.kv[i] # NullVal

\* C9: an error of a non-null root field, thrown by its resolver or sent
\* later by its stream, makes the result stream deliver one snapshot with
\* data null and the errors and then complete, with every resolver stream
\* released; the result stream does not fail.
C9_RootErrorCompletes ==
  [][ /\ \A k \in Keys :
          (isNonNullType(FieldTypes[scenario.sel[k]]) /\ RootStreamFails(k, scenario.sel[k])) =>
            /\ status' = "completed"
            /\ snaps' # <<>>
            /\ snaps'[Len(snaps')] = buildResponse(errors', NullData)
            /\ HasErrorAt(errors', <<scenario.sel[k]>>)
            /\ \A s \in Sources : nsub'[s] = 0
      /\ (dataNull /\ status = "built" /\ status' # "built") =>
            /\ status' = "completed"
            /\ snaps' = <<buildResponse(errors, NullData)>>
            /\ errors # <<>>
            /\ \A s \in Sources : nsub'[s] = 0
    ]_vars

\* field k of a mutation has started: its resolver was called or its stream
\* has a subscriber
Started(k) == ncalls[scenario.sel[k]] > 0 \/ nsub[<<scenario.sel[k]>>] > 0

\* C10: in write mode the resolver of top-level field k > 1 is not called and
\* its stream not subscribed as long as field k-1 has not produced its first
\* completed value.
C10_SerialOrder ==
  IsMutation => \A k \in 2..N : Started(k) => slot[k - 1] # NoVal

C10_Witness ==
  /\ IsMutation /\ scenario.sel = <<"a", "b", "c">> /\ StreamField("a")
  /\ Started(2) /\ ~Started(3)
  /\ slot[1] # NoVal /\ slot[2] = NoVal
  /\ nEvents >= 2

\* C11: in write mode the resolver of every top-level field is invoked at
\* most once for one subscription to the result stream.
C11_ResolverCalledOnce ==
  IsMutation => \A k \in Keys : ncalls[scenario.sel[k]] <= 1

\* C12: no resolver stream has more than one subscription at any time.
C12_SubscribedAtMostOnce ==
  \A s \in Sources : nsub[s] <= 1

\* C13: the error accumulator only grows at its end, and the errors lists of
\* successive snapshots grow with it: each one extends the accumulator as it
\* was before the step and the list of the snapshot before it.
C13_ErrorsAppendOnly ==
  [][ /\ IsPrefix(errors, errors')
      /\ \A n \in 1..Len(snaps') :
           /\ IsPrefix(errors, snaps'[n].errors)
           /\ IsPrefix(snaps'[n].errors, errors')
           /\ n > 1 => IsPrefix(snaps'[n - 1].errors, snaps'[n].errors)
    ]_vars

C13_Witness ==
  /\ errors = <<Err(<<"e", "opt">>, "throw"), Err(<<"a">>, "serialize")>>
  /\ total = 2
  /\ Len(snaps) = 1 /\ snaps[1].errors = errors

\* C14: a snapshot has the key data alone exactly when the accumulator is
\* empty and data is not null when it is built; otherwise it has the keys
\* errors and data.
C14_ResponseKeys ==
  [][ \A n \in 1..Len(snaps') :
        LET r == snaps'[n]
        IN /\ r.keys \in {{"data"}, {"errors", "data"}}
           /\ r.keys = {"data"} =>
                errors = <<>> /\ r.errors = <<>> /\ ~r.data.isNull
           /\ r.keys = {"errors", "data"} =>
                \/ r.data.isNull
                \/ r.errors # <<>> /\ errors' # <<>>
    ]_vars

C14_Witness ==
  /\ Len(snaps) = 1 /\ total >= 2
  /\ snaps[1].keys = {"errors", "data"} /\ ~snaps[1].data.isNull
  /\ Len(errors) = 1 /\ event.ev = "error"

\* C15: with cold, deterministic resolver streams a second subscription to
\* the same result stream gets the snapshots the first one got, errors
\* lists included.
C15_ResubscribeIdentical ==
  resubs = 1 => snaps = firstRun
-----------------------------------------------------------------------------
(* Lists.                                                                   *)

IsListField(f) == isListType(FieldTypes[f])
\* the iterable the field's resolver produced last
LatestList(f) == IF StreamField(f) THEN lastRaw[<<f>>] ELSE scenario.resolver[f]
\* the completion of a leaf item
LeafItemDone(x) == IF x = "bad" THEN NullVal ELSE LeafVal(x)
\* chain k combines the items of a list and item i is fed by stream s
FeedsItem(k, i, s) ==
  /\ chain[k].st = "live" /\ IsList(chain[k])
  /\ i \in 1..Len(chain[k].items) /\ KidSource(chain[k], i) = s
  /\ chain[k].kids[i].st = "sub"

\* C16: whenever the slot of a list field takes a list, the list has one
\* entry per item of the iterable the resolver produced last, entry i being
\* the completion of item i (for object items: the object whose field holds
\* the value item i's stream just sent); a new value of one item's stream
\* leaves every other entry as it was; an empty iterable fills the slot with
\* the empty list in the same step, and the snapshot follows if every other
\* slot is filled.
C16_ListPreserved ==
  [][ \A k \in Keys :
        LET f == scenario.sel[k]
            xs == Items(LatestList(f)')
            e == event'
        IN IsListField(f) =>
             /\ (slot'[k].t = "list" /\ slot'[k] # slot[k]) =>
                  /\ Len(slot'[k].kv) = Len(xs)
                  /\ \A i \in 1..Len(xs) :
                       IF isLeafType(FieldTypes[f].ofType)
                         THEN slot'[k].kv[i] = LeafItemDone(xs[i])
                         ELSE slot'[k].kv[i].t \in {"obj", "null"}
             /\ \A i \in 1..Len(chain[k].kids) :
                  (e.ev = "next" /\ FeedsItem(k, i, e.s) /\ slot'[k].t = "list") =>
                    /\ (e.raw \in LeafRaw /\ slot'[k] # slot[k]) =>
                         slot'[k].kv[i] = ObjVal(<<LeafVal(e.raw)>>)
                    /\ (\A n \in 1..Len(chain[k].kids) : chain[k].kids[n].val # NoVal) =>
                         /\ slot[k].t = "list" /\ Len(slot'[k].kv) = Len(slot[k].kv)
                         /\ e.raw \in LeafRaw => slot'[k].kv[i] = ObjVal(<<LeafVal(e.raw)>>)
                         /\ \A n \in 1..Len(slot[k].kv) :
                              n # i => slot'[k].kv[n] = slot[k].kv[n]
             /\ (e.ev = "next" /\ e.s = <<f>> /\ e.raw = "[]" /\ RootSubscribed(S0, k, f)) =>
                  /\ slot'[k] = ListVal(<<>>)
                  /\ (\A j \in Keys : slot'[j] # NoVal) =>
                       /\ snaps' # <<>>
                       /\ snaps'[Len(snaps')].data.fields[k] = ListVal(<<>>) ]_vars

C16_Witness ==
  /\ scenario.sel = <<"es">> /\ event = Event("next", <<"value", "A">>, "v2")
  /\ total = 2 /\ Len(snaps) = 1
  /\ snaps[1].data.fields[1] =
       ListVal(<<ObjVal(<<LeafVal("v2")>>), ObjVal(<<LeafVal("v1")>>)>>)

\* the list with the other items' values and null for item i
OthersAnd(k, i, val) ==
  ListVal([n \in 1..Len(chain[k].kids) |-> IF n = i THEN val ELSE chain[k].kids[n].val])
OthersFilled(k, i) ==
  \A n \in 1..Len(chain[k].kids) : n # i => chain[k].kids[n].val # NoVal
\* the stream feeding the selected field of item i fails or sends a value
\* that cannot be serialized
ItemFieldFails(k, i) ==
  /\ event'.ev = "error" \/ (event'.ev = "next" /\ event'.raw = "bad")
  /\ FeedsItem(k, i, event'.s)
\* an iterable of leaves arrives at the list field of key k
LeafListArrives(k, f) ==
  /\ event'.ev = "next" /\ event'.s = <<f>> /\ event'.raw \in LeafLists
  /\ RootSubscribed(S0, k, f)

\* C17: a leaf item that cannot be completed: with a nullable item type the
\* list keeps its length, only that entry is null and one error located at
\* the item's index is appended; with a non-null item type the list field
\* itself becomes null, with that one error.  An object item whose selected
\* field fails: a nullable field becomes null inside the item; a non-null
\* field makes entry i null when the item type is nullable (the other
\* entries keep their values, one error located under index i is appended)
\* and makes the list field null when the item type is non-null.  The
\* result stream goes on in every case.
C17_ItemErrorIsolated ==
  [][ \A k \in Keys :
        LET f == scenario.sel[k]
            xs == Items(event'.raw)
            bad == {i \in 1..Len(xs) : xs[i] = "bad"}
        IN IsListField(f) =>
             /\ LeafListArrives(k, f) =>
                  /\ bad = {} => errors' = errors
                  /\ \A i \in bad :
                       /\ errors' = Append(errors, Err(<<f, IndexKey(i)>>, "serialize"))
                       /\ status' \in {"subscribed", "completed"} /\ fatal' = <<>>
                       /\ \A j \in Keys \ {k} : slot'[j] = slot[j]
                       /\ IF isNullableType(FieldTypes[f].ofType)
                            THEN /\ slot'[k].t = "list" /\ Len(slot'[k].kv) = Len(xs)
                                 /\ \A n \in 1..Len(xs) :
                                      slot'[k].kv[n] = IF n = i THEN NullVal ELSE LeafVal(xs[n])
                            ELSE slot'[k] = NullVal
             /\ \A i \in 1..Len(chain[k].kids) :
                  LET name == KidName(chain[k], i)
                      error == Err(<<f, IndexKey(i), name>>, FailureOf(event'))
                  IN ItemFieldFails(k, i) =>
                       /\ errors' = Append(errors, error)
                       /\ status' \in {"subscribed", "completed"} /\ fatal' = <<>>
                       /\ \A j \in Keys \ {k} : slot'[j] = slot[j]
                       /\ CASE isNullableType(FieldTypes[name]) ->
                                 OthersFilled(k, i) => slot'[k] = OthersAnd(k, i, ObjVal(<<NullVal>>))
                            [] isNullableType(FieldTypes[f].ofType) ->
                                 /\ OthersFilled(k, i) => slot'[k] = OthersAnd(k, i, NullVal)
                                 /\ ~OthersFilled(k, i) => slot'[k] = slot[k]
                                 /\ \A n \in 1..Len(chain[k].kids) :
                                      (n # i /\ chain[k].kids[n].st = "sub") =>
                                        nsub'[KidSource(chain[k], n)] = 1
                            [] OTHER ->
                                 /\ slot'[k] = NullVal
                                 /\ \A n \in 1..Len(chain[k].kids) :
                                      nsub'[KidSource(chain[k], n)] = 0 ]_vars

C17_Witness ==
  /\ scenario.sel = <<"tags", "a">> /\ event = Event("next", <<"tags">>, "[v1,bad]")
  /\ Len(snaps) = 1 /\ snaps[1].data.fields[1] = ListVal(<<LeafVal("v1"), NullVal>>)
  /\ snaps[1].errors = <<Err(<<"tags", "1">>, "serialize")>>

-----------------------------------------------------------------------------
(* Empty selection sets.                                                    *)

\* C18: the stream of an empty selection set delivers one empty object and
\* completes: an operation without fields ends with exactly one snapshot,
\* whose data is the empty object, and an object field without sub-fields
\* holds the empty object once its resolver has produced a parent.
C18_EmptyFieldsEmitOnce ==
  /\ (N = 0 /\ status = "completed") =>
       /\ total = 1
       /\ snaps = <<buildResponse(<<>>, ObjData(<<>>))>>
  /\ \A k \in Keys :
       LET f == scenario.sel[k]
       IN (isObjectType(FieldTypes[f]) /\ scenario.sub = <<>> /\ status = "subscribed"
           /\ (lastRaw[<<f>>] \in ParentRaw \/ scenario.resolver[f] \in ParentRaw))
            => slot[k] = ObjVal(<<>>)

-----------------------------------------------------------------------------
(* Selected names without field definition.                                 *)

\* the keys of a snapshot's data: the response names executeFields kept
DataKeys(snapshot) ==
  IF snapshot.data.isNull THEN {}
  ELSE {results[k] : k \in 1..Len(snapshot.data.fields)}

\* C19: the data of every snapshot has exactly the selected response keys
\* whose field is defined on the parent type; a key without field definition
\* is left out.
C19_AbsentKeyOmitted ==
  \A n \in 1..Len(snaps) :
    ~snaps[n].data.isNull =>
      DataKeys(snaps[n]) = {f \in Range(scenario.sel) : hasFieldDef(f)}

-----------------------------------------------------------------------------
(* Completion.                                                              *)

ObjectFields == {f \in Range(scenario.sel) : isObjectType(FieldTypes[f])}
\* the parent an object field's sub-selection currently runs against
ParentOf(f) == IF StreamField(f) THEN lastRaw[<<f>>] ELSE scenario.resolver[f]
\* the resolver streams of the current tree
TreeSources ==
  {<<f>> : f \in {g \in Range(scenario.sel) : StreamField(g)}}
  \cup {s \in EmitterFieldNames \X ParentRaw :
          /\ s[1] \in Range(scenario.sub) /\ StreamField(s[1])
          /\ \E f \in ObjectFields : ParentOf(f) = s[2]}
\* an error recorded in the accumulator ended the field stream fed by s: an
\* error of the field itself, or one that rose to its root field
EndsRootField(err, f) ==
  /\ err.path[1] = f
  /\ Len(err.path) = 1 \/ isNonNullType(FieldTypes[err.path[2]])
FailureAbsorbed(s) ==
  \E n \in 1..Len(errors) :
    IF Len(s) = 1 THEN EndsRootField(errors[n], s[1])
    ELSE \E f \in ObjectFields :
           errors[n].path = <<f, s[1]>> \/ EndsRootField(errors[n], f)
OneShot ==
  \A f \in Range(scenario.sel) \cup Range(scenario.sub) :
    scenario.resolver[f] \in LeafRaw \cup ParentRaw

\* C20 as stated: the result stream has completed (not by a failure at the
\* root) only if no resolver stream of the current tree is still open.
C20_CompletesOnlyWhenAllComplete ==
  (IsQuery /\ status = "completed" /\ ~dataNull) =>
    \A s \in TreeSources : src[s] # "open"

\* C20, amended: when the result stream has completed, every resolver stream
\* of the current tree (in a mutation: every stream returned by a resolver
\* that was called) has terminated or feeds a field whose failure was
\* absorbed: that field's stream ends with null while the resolver stream
\* stays open.  While the result stream is subscribed some resolver stream
\* is still open.  A mutation whose resolvers all return plain values
\* delivers exactly one snapshot and has completed right after subscription.
C20_CompletesWhenSettled ==
  /\ (IsQuery /\ status = "completed" /\ ~dataNull) =>
       \A s \in TreeSources : src[s] # "open" \/ FailureAbsorbed(s)
  /\ (IsMutation /\ status = "completed" /\ ~dataNull) =>
       \A k \in Keys : LET s == <<scenario.sel[k]>>
                       IN (StreamField(s[1]) /\ ncalls[s[1]] > 0) =>
                            src[s] # "open" \/ FailureAbsorbed(s)
  /\ status = "subscribed" =>
       \E s \in (IF IsQuery THEN TreeSources ELSE UsedSources) : src[s] = "open"
  /\ (IsMutation /\ OneShot /\ status \notin {"none", "built"}) =>
       /\ status = "completed" /\ total = 1
       /\ snaps = <<buildResponse(<<>>, ObjData(<<ObjVal(<<LeafVal("v1")>>), LeafVal("v2")>>))>>

C20_Witness ==
  /\ scenario.sel = <<"a", "b">> /\ status = "completed" /\ total = 1
  /\ src[<<"a">>] = "open" /\ src[<<"b">>] = "completed"
  /\ errors = <<Err(<<"a">>, "serialize")>>

-----------------------------------------------------------------------------
(* One-shot resolvers and the promise-based reference execution.            *)

\* what the resolver of field name gave for source s: its plain value,
\* "throws", or for a Promise the value it was fulfilled with ("rejected",
\* "pending")
OutcomeOf(name, s) ==
  IF scenario.resolver[name] # "promise" THEN scenario.resolver[name]
  ELSE IF src[s] = "errored" THEN "rejected"
  ELSE IF src[s] = "completed" THEN lastRaw[s]
  ELSE "pending"
AllSettled ==
  \A s \in UsedSources : Len(s) = 1 => src[s] # "open"

\* the reference execution of one field: the failure it raises, if any
RefFailure(type, outcome) ==
  CASE outcome = "throws" -> "throw"
    [] outcome = "rejected" -> "stream"
    [] outcome = "bad" /\ isLeafType(type) -> "serialize"
    [] outcome = "null" /\ isNonNullType(type) -> "nonnull"
    [] OTHER -> "none"
\* the reference result of the selected field of parent p under field f
RefKid(f, p) ==
  LET c == scenario.sub[1]
      o == OutcomeOf(c, <<c, p>>)
      why == RefFailure(FieldTypes[c], o)
  IN IF why # "none"
       THEN [val |-> NullVal, errs |-> {Err(<<f, c>>, why)},
             thrown |-> isNonNullType(FieldTypes[c])]
       ELSE [val |-> IF o = "null" THEN NullVal ELSE LeafVal(o), errs |-> {},
             thrown |-> FALSE]
\* the reference result of root field f
RefField(f) ==
  LET type == FieldTypes[f]
      o == OutcomeOf(f, <<f>>)
      why == RefFailure(type, o)
      kid == RefKid(f, o)
  IN IF why # "none"
       THEN [val |-> NullVal, errs |-> {Err(<<f>>, why)}, thrown |-> isNonNullType(type)]
     ELSE IF o = "null" THEN [val |-> NullVal, errs |-> {}, thrown |-> FALSE]
     ELSE IF isLeafType(type) THEN [val |-> LeafVal(o), errs |-> {}, thrown |-> FALSE]
     ELSE IF kid.thrown
       THEN [val |-> NullVal, errs |-> kid.errs, thrown |-> isNonNullType(type)]
       ELSE [val |-> ObjVal(<<kid.val>>), errs |-> kid.errs, thrown |-> FALSE]
\* the reference response: data null when a failure reaches the root
RefErrors == UNION {RefField(scenario.sel[k]).errs : k \in Keys}
RefData ==
  IF \E k \in Keys : RefField(scenario.sel[k]).thrown THEN NullData
  ELSE ObjData([k \in Keys |-> RefField(scenario.sel[k]).val])
MatchesReference(snapshot) ==
  /\ snapshot.data = RefData
  /\ Range(snapshot.errors) = RefErrors
  /\ Len(snapshot.errors) = Cardinality(RefErrors)
  /\ snapshot.keys = IF RefErrors = {} /\ ~RefData.isNull THEN {"data"}
                     ELSE {"errors", "data"}

\* C21: in a query whose resolvers return plain values or Promises, once
\* the result stream is subscribed and every Promise of the tree is settled
\* the result stream has completed after exactly one snapshot, the response
\* of the reference execution, and every field stream has completed.
C21_OneShotMatchesReference ==
  (status \in {"subscribed", "completed", "errored"} /\ AllSettled
   /\ \A f \in ObjectFields :
        OutcomeOf(f, <<f>>) \in ParentRaw =>
          OutcomeOf(scenario.sub[1], <<scenario.sub[1], OutcomeOf(f, <<f>>)>>) # "pending")
    => /\ status = "completed" /\ total = 1 /\ Len(snaps) = 1
       /\ MatchesReference(snaps[1])
       /\ \A k \in Keys : chain[k].st = "completed"

-----------------------------------------------------------------------------
(* Response keys.                                                           *)

KeyFor(f) == IF scenario.alias[f] # "none" THEN scenario.alias[f] ELSE f
KeysOf(sel) == [i \in 1..Len(sel) |-> KeyFor(sel[i])]

\* C22: the keys of every emitted object, the data object and the objects
\* in its slots, are the aliases (the field names where no alias is given)
\* of the selection, in the order of the selection, whichever field stream
\* emitted first.
C22_KeysInSelectionOrder ==
  \A n \in 1..Len(snaps) :
    ~snaps[n].data.isNull =>
      /\ snaps[n].data.names = KeysOf(scenario.sel)
      /\ \A i \in 1..Len(snaps[n].data.fields) :
           snaps[n].data.fields[i].t = "obj" =>
             snaps[n].data.fields[i].names = KeysOf(scenario.sub)

\* the first snapshot, released by the first field of the selection after
\* the other field had emitted, with aliased keys
C22_Witness ==
  /\ N = 2 /\ total = 1 /\ Len(snaps) = 1 /\ ~snaps[1].data.isNull
  /\ event.ev = "next" /\ event.s[1] \in {scenario.sel[1]} \cup Range(scenario.sub)
  /\ lastRaw[<<scenario.sel[2]>>] # "none"
  /\ \E f \in Range(scenario.sel) \cup Range(scenario.sub) : scenario.alias[f] # "none"

-----------------------------------------------------------------------------
(* Requests rejected before execution.                                      *)

\* C23: for a request with an invalid schema, a syntax error, an invalid
\* query or no execution context, no resolver is ever invoked and no stream
\* subscribed; the result stream, once subscribed, has emitted exactly one
\* snapshot, which has the key errors (not empty) and no key data, and has
\* completed.
C23_EarlyErrorsOnly ==
  scenario.request # "ok" =>
    /\ \A f \in FieldNames : ncalls[f] = 0
    /\ calls = <<>>
    /\ \A s \in Sources : nsub[s] = 0
    /\ status \in {"none", "built", "completed"}
    /\ status # "completed" => total = 0 /\ snaps = <<>>
    /\ status = "completed" => total = 1
    /\ \A n \in 1..Len(snaps) :
         snaps[n].keys = {"errors"} /\ snaps[n].errors # <<>>

C23_Witness ==
  /\ scenario.request = "syntaxError" /\ scenario.resolver["a"] = "v1"
  /\ status = "completed" /\ total = 1 /\ Len(snaps) = 1
  /\ snaps[1].keys = {"errors"}

-----------------------------------------------------------------------------
(* Nullish values.                                                          *)

\* root field f, feeding key k, yields raw in this step: its stream sends
\* it, or the result stream is subscribed and the resolver returned it
RootYields(k, f, raw) ==
  \/ RootSubscribed(S0, k, f) /\ event'.ev = "next" /\ event'.s = <<f>>
     /\ event'.raw = raw
  \/ scenario.resolver[f] = raw /\ status = "built" /\ status' # "built"
\* the stream of sub-field i of key k's current object sends raw in this step
KidYields(k, i, raw) ==
  /\ chain[k].st = "live" /\ i \in 1..Len(chain[k].kids)
  /\ chain[k].kids[i].st = "sub"
  /\ event'.ev = "next" /\ event'.s = KidSource(chain[k], i) /\ event'.raw = raw
NoSubFieldCalled(log) ==
  \A n \in 1..Len(log) : log[n][1] \notin Range(scenario.sub)

\* C24: in a query, when a resolver yields null, undefined or NaN for a
\* field, the field's slot becomes null, every snapshot of the step shows
\* null there (and there is one if all slots are filled), no resolver of
\* the field's sub-selection is invoked and none of their streams stays or
\* gets subscribed; for a nullable field no error is recorded.
C24_NullishIsNull ==
  [][ \A k \in Keys : \A raw \in NullishRaw :
        LET f == scenario.sel[k]
        IN /\ (IsQuery /\ scenario.request = "ok" /\ RootYields(k, f, raw)) =>
                /\ slot'[k] = NullVal
                /\ \A n \in 1..Len(snaps') : snaps'[n].data.fields[k] = NullVal
                /\ (\A j \in Keys : slot'[j] # NoVal) => snaps' # <<>>
                /\ isObjectType(FieldTypes[f]) \/ isListType(FieldTypes[f]) =>
                     /\ NoSubFieldCalled(calls')
                     /\ chain'[k].kids = <<>>
                /\ isNullableType(FieldTypes[f]) =>
                     ~ \E e \in NewErrors : IsPrefix(<<f>>, e.path)
           /\ \A i \in 1..Len(chain[k].kids) :
                (IsQuery /\ ~IsList(chain[k]) /\ KidYields(k, i, raw)) =>
                  /\ slot'[k].t = "obj" => slot'[k].kv[i] = NullVal
                  /\ isNullableType(FieldTypes[scenario.sub[i]]) =>
                       /\ errors' = errors
                       /\ (\A j \in 1..Len(chain[k].kids) :
                             j # i => chain[k].kids[j].val # NoVal)
                            => slot'[k].t = "obj" ]_vars

\* an object field that held an object is set to null by undefined, with
\* the snapshot showing it
C24_Witness ==
  /\ event.ev = "next" /\ event.raw = "undefined" /\ event.s = <<"e">>
  /\ scenario.sel[1] = "e" /\ slot[1] = NullVal /\ total >= 2 /\ Len(snaps) = 1
  /\ errors = <<>> /\ lastRaw[<<"e">>] = "undefined"

-----------------------------------------------------------------------------
(* The ad-hoc executor, the default export of reactive-graphql.ts.  Its      *)
(* runs use the variables of the engine above; chain[k] is the stream of    *)
(* the k-th selected root field, the first of which carries the             *)
(* sub-selection scenario.sub.                                              *)

\* the types of the schema it is run on
NullType == [kind |-> "null", name |-> "null", fields |-> <<>>]
QueryType == [kind |-> "object", name |-> "Query", fields |-> <<"a", "b", "c", "e">>]
EmitterObject == [kind |-> "object", name |-> "Emitter", fields |-> <<"value", "opt">>]
StringScalar == [kind |-> "scalar", name |-> "String", fields |-> <<>>]
ColorEnum == [kind |-> "enum", name |-> "Color", fields |-> <<>>]
NodeInterface == [kind |-> "interface", name |-> "Node", fields |-> <<"value">>]
AdhocTypes ==
  {NullType, QueryType, EmitterObject, StringScalar, ColorEnum, NodeInterface}

\* getNamedType(field.type): a: String, b: Color, c: Node (an interface
\* without resolveType), e: Emitter
getResultType(fieldName) ==
  CASE fieldName = "e" -> EmitterObject
    [] fieldName = "b" -> ColorEnum
    [] fieldName = "c" -> NodeInterface
    [] OTHER -> StringScalar

\* the field definition, or "null"
getField(parentType, fieldName) ==
  IF parentType.kind = "object" /\ fieldName \in Range(parentType.fields)
    THEN fieldName ELSE "null"

\* String(array): the elements joined by commas
RECURSIVE Join(_)
Join(xs) ==
  IF xs = <<>> THEN ""
  ELSE IF Len(xs) = 1 THEN xs[1]
  ELSE xs[1] \o "," \o Join(Tail(xs))

\* variant: no hint, whatever the type
fieldNotFoundMessageNone(type) == ""

fieldNotFoundMessageForType(type) ==
  CASE type.kind = "null" -> "The type should not be null."
    [] type.kind = "scalar" ->
         "The field has a scalar type, which means it supports no nesting."
    [] type.kind = "enum" ->
         "The field has an enum type, which means it supports no nesting."
    [] type.kind = "object" ->
         "The only fields found in this Object are: " \o Join(type.fields) \o "."
    [] OTHER -> ""

throwObservable(error) == Err(<<>>, "reactive-graphql: " \o error)
ThrownError == "Error: my personal error"

\* variant: the error a resolver throws is passed on as it is
resolverThrowsBare(name) == Err(<<>>, ThrownError)

resolverThrows(name) ==
  throwObservable("resolver '" \o name \o "' throws this error: '"
                  \o ThrownError \o "'")
fieldNotFound(name, type) ==
  throwObservable("field '" \o name \o "' was not found on type '" \o type.name
                  \o "'. " \o fieldNotFoundMessageForType(type))

\* the stream resolve builds for a field node: an error, the resolver's
\* stream, or of(value)
adhocResolve(parentType, name) ==
  IF getField(parentType, name) = "null"
    THEN [kind |-> "throw", error |-> fieldNotFound(name, parentType)]
  ELSE IF scenario.resolver[name] = "throws"
    THEN [kind |-> "throw", error |-> resolverThrows(name)]
  ELSE IF scenario.resolver[name] = "stream"
    THEN [kind |-> "stream", error |-> Err(<<>>, "none")]
    ELSE [kind |-> "of", error |-> Err(<<>>, "none")]

\* resolveResult resolves every selection while it builds the combined
\* stream: the resolvers of the fields that exist are called
RECURSIVE resolveResult(_, _, _, _)
resolveResult(S, parentType, names, parent) ==
  IF names = <<>> THEN S
  ELSE resolveResult(IF getField(parentType, Head(names)) = "null" THEN S
                     ELSE Invoke(S, Head(names), parent),
                     parentType, Tail(names), parent)

\* map(value => isNullish(value) ? null : value)
adhocValue(raw) == IF isNullish(raw) THEN NullVal ELSE LeafVal(raw)

\* map(data => ({ data }))
adhocResponse(d) == [keys |-> {"data"}, data |-> d, errors |-> <<>>]

\* the combined stream of the root selection emits once every field stream
\* has a value
adhocEmit(S, k, val) ==
  LET slots == [S.slot EXCEPT ![k] = val]
      S1 == [S EXCEPT !.slot = slots]
  IN IF \A i \in Keys : slots[i] # NoVal
       THEN [S1 EXCEPT !.snaps = Append(@, adhocResponse(ObjData(slots)))]
       ELSE S1

\* the combined stream of the sub-selection emits once each of its fields
\* has a value
adhocKidEmit(S, k, i, val) ==
  LET S1 == [S EXCEPT !.chain[k].kids[i].val = val]
      kids == S1.chain[k].kids
  IN IF \A j \in 1..Len(kids) : kids[j].val # NoVal
       THEN adhocEmit(S1, k, ObjVal([j \in 1..Len(kids) |-> kids[j].val]))
       ELSE S1

\* field i of the sub-selection is subscribed
adhocSubKid(S, k, type, i) ==
  LET name == scenario.sub[i]
      r == adhocResolve(type, name)
      s == <<name, S.chain[k].par>>
  IN CASE r.kind = "throw" -> RootError(S, r.error)
       [] r.kind = "of" ->
            adhocKidEmit([S EXCEPT !.chain[k].kids[i].st = "done"], k, i,
                         adhocValue(scenario.resolver[name]))
       [] S.src[s] = "open" -> Log([S EXCEPT !.chain[k].kids[i].st = "sub"], "sub", s)
       [] S.src[s] = "errored" -> RootError(S, Err(<<>>, "stream"))
       [] OTHER -> [S EXCEPT !.chain[k].kids[i].st = "done"]

RECURSIVE adhocSubKids(_, _, _, _)
adhocSubKids(S, k, type, i) ==
  IF i > Len(scenario.sub) \/ S.result # "subscribed" THEN S
  ELSE adhocSubKids(adhocSubKid(S, k, type, i), k, type, i + 1)

\* concatMap's projection of the value emitted: the sub-selection is
\* resolved with emitted as parent and subscribed
adhocProject(S, k, emitted) ==
  IF isNullish(emitted)
    THEN RootError(S, throwObservable("resolver emitted empty value"))
    ELSE LET nextType == getResultType(scenario.sel[k])
             fresh == [S EXCEPT !.chain[k].par = emitted,
                                !.chain[k].kids = [i \in 1..Len(scenario.sub) |->
                                                     [st |-> "idle", val |-> NoVal]]]
         IN adhocSubKids(resolveResult(fresh, nextType, scenario.sub, emitted),
                         k, nextType, 1)

\* concatMap after a change: while an inner stream is open it waits; else
\* it projects the next buffered value or, its source being done, completes
RECURSIVE adhocDrain(_, _)
adhocDrain(S, k) ==
  LET c == S.chain[k]
  IN IF S.result # "subscribed" \/ c.st # "live" THEN S
     ELSE IF c.par # "none" /\ \E i \in 1..Len(c.kids) : c.kids[i].st # "done" THEN S
     ELSE IF c.buffer # <<>>
       THEN adhocDrain(adhocProject([S EXCEPT !.chain[k].buffer = Tail(@)], k,
                                    Head(c.buffer)), k)
     ELSE IF c.outer = "done" THEN ChainComplete(S, k)
     ELSE [S EXCEPT !.chain[k].par = "none", !.chain[k].kids = <<>>]

hasSelectionSet(k) == k = 1 /\ scenario.sub # <<>>

\* the stream of root field k sends raw
adhocRootNext(S, k, raw) ==
  IF ~hasSelectionSet(k) THEN adhocEmit(S, k, adhocValue(raw))
  ELSE IF S.chain[k].par # "none"
    THEN [S EXCEPT !.chain[k].buffer = Append(@, raw)]
    ELSE adhocDrain(adhocProject(S, k, raw), k)

\* the stream of root field k completes
adhocRootDone(S, k) ==
  IF hasSelectionSet(k) THEN adhocDrain([S EXCEPT !.chain[k].outer = "done"], k)
  ELSE ChainComplete(S, k)

\* root field k is subscribed
adhocSubscribeRoot(S, k) ==
  LET name == scenario.sel[k]
      r == adhocResolve(QueryType, name)
      S1 == [S EXCEPT !.chain[k] = [IdleChain EXCEPT !.stage = k, !.st = "live"]]
  IN CASE r.kind = "throw" -> RootError(S1, r.error)
       [] r.kind = "of" ->
            LET S2 == adhocRootNext(S1, k, scenario.resolver[name])
            IN IF S2.result = "subscribed" THEN adhocRootDone(S2, k) ELSE S2
       [] S.src[<<name>>] = "open" ->
            Log([S1 EXCEPT !.chain[k].outer = "sub"], "sub", <<name>>)
       [] S.src[<<name>>] = "errored" -> RootError(S1, Err(<<>>, "stream"))
       [] OTHER -> adhocRootDone(S1, k)

\* combineLatest subscribes to the field streams in selection order
RECURSIVE adhocSubscribeAll(_, _)
adhocSubscribeAll(S, k) ==
  IF k > N \/ S.result # "subscribed" THEN S
  ELSE adhocSubscribeAll(adhocSubscribeRoot(S, k), k + 1)

adhocNotify(S, k, s, ev, raw) ==
  CASE ev = "error" -> RootError(S, Err(<<>>, "stream"))
    [] ev = "next" /\ Len(s) = 1 -> adhocRootNext(S, k, raw)
    [] ev = "next" -> adhocKidEmit(S, k, KidIndex(S.chain[k], s), adhocValue(raw))
    [] Len(s) = 1 -> adhocRootDone([S EXCEPT !.chain[k].outer = "done"], k)
    [] OTHER -> adhocDrain([S EXCEPT !.chain[k].kids[KidIndex(S.chain[k], s)].st = "done"], k)

adhocDeliver(S, s, ev, raw) ==
  IF Subscribers(s) = {} THEN S
  ELSE adhocNotify(S, CHOOSE k \in Subscribers(s) : TRUE, s, ev, raw)

\* queries run by the ad-hoc executor
AdhocScenarios ==
  { Scenario("query", <<"a", "b">>, <<>>, AllStreams),
    Scenario("query", <<"a", "b">>, <<>>, With(With(AllStreams, "a", "v1"), "b", "throws")),
    Scenario("query", <<"a", "b">>, <<>>, With(With(AllStreams, "a", "v1"), "b", "v2")),
    Scenario("query", <<"e", "a">>, <<"value">>, AllStreams),
    Scenario("query", <<"e", "a">>, <<"value", "opt">>, With(AllStreams, "opt", "throws")),
    Scenario("query", <<"e", "a">>, <<"value">>, With(AllStreams, "e", "A")),
    Scenario("query", <<"ghost", "a">>, <<>>, With(AllStreams, "a", "v1")),
    Scenario("query", <<"a", "ghost">>, <<>>, AllStreams),
    Scenario("query", <<"e", "a">>, <<"value", "ghost">>, AllStreams),
    Scenario("query", <<"a">>, <<"value">>, AllStreams),
    Scenario("query", <<"b">>, <<"value">>, AllStreams),
    Scenario("query", <<"c">>, <<"value">>, AllStreams) }

\* graphql(schema, query): the tree of streams is built, the resolvers of
\* the root selection are called
AdhocGraphql ==
  /\ status = "none"
  /\ Commit([resolveResult(S0, QueryType, scenario.sel, "root") EXCEPT !.result = "built"])
  /\ event' = NoEvent
  /\ UNCHANGED <<scenario, firstRun, resubs, dataNull, lastRaw, early, nEvents>>

AdhocSubscribe ==
  /\ status = "built"
  /\ Commit(adhocSubscribeAll([S0 EXCEPT !.result = "subscribed"], 1))
  /\ event' = NoEvent
  /\ UNCHANGED <<scenario, firstRun, resubs, dataNull, lastRaw, early, nEvents>>

AdhocNext(s, raw) ==
  /\ status # "none" /\ nEvents < MaxEvents /\ src[s] = "open"
  /\ Commit(adhocDeliver(S0, s, "next", raw))
  /\ lastRaw' = IF status = "subscribed" THEN [lastRaw EXCEPT ![s] = raw] ELSE lastRaw
  /\ early' = (early \/ status = "built")
  /\ event' = Event("next", s, raw)
  /\ nEvents' = nEvents + 1
  /\ UNCHANGED <<scenario, firstRun, resubs, dataNull>>

AdhocError(s) ==
  /\ status # "none" /\ nEvents < MaxEvents /\ src[s] = "open"
  /\ Commit(adhocDeliver([S0 EXCEPT !.src[s] = "errored"], s, "error", "null"))
  /\ event' = Event("error", s, "none")
  /\ nEvents' = nEvents + 1
  /\ UNCHANGED <<scenario, firstRun, resubs, dataNull, lastRaw, early>>

AdhocComplete(s) ==
  /\ status # "none" /\ nEvents < MaxEvents /\ src[s] = "open"
  /\ Commit(adhocDeliver([S0 EXCEPT !.src[s] = "completed"], s, "complete", "null"))
  /\ event' = Event("complete", s, "none")
  /\ nEvents' = nEvents + 1
  /\ UNCHANGED <<scenario, firstRun, resubs, dataNull, lastRaw, early>>

NextAdhoc ==
  \/ AdhocGraphql
  \/ AdhocSubscribe
  \/ Unsubscribe
  \/ \E s \in UsedSources : \E raw \in Emits(s) : AdhocNext(s, raw)
  \/ \E s \in UsedSources : AdhocError(s)
  \/ \E s \in UsedSources : AdhocComplete(s)

SpecAdhoc == InitWith(AdhocScenarios) /\ [][NextAdhoc]_vars

-----------------------------------------------------------------------------
(* Errors of the ad-hoc executor.                                           *)

\* the fields selected on a type that does not define them
MissingRoot == {f \in Range(scenario.sel) : getField(QueryType, f) = "null"}
MissingSub ==
  {f \in Range(scenario.sub) : getField(getResultType(scenario.sel[1]), f) = "null"}
\* the resolvers that threw when they were called
Threw == {f \in FieldNames : scenario.resolver[f] = "throws" /\ ncalls[f] > 0}
StreamError == Err(<<>>, "stream")

\* C25: once a resolver has thrown, the subscribed result stream has ended
\* with an error notification; a subscribed resolver stream that errors ends
\* the result stream with that error in the same step; if a throw is the
\* only failure, the error carries the message naming the resolver; after
\* the error no snapshot follows; and every snapshot is { data } alone.
C25_AdhocErrorsTerminate ==
  [][ /\ (Threw' # {} /\ status' \notin {"none", "built"}) => status' = "errored"
      /\ (status = "subscribed" /\ event'.ev = "error" /\ Subscribers(event'.s) # {})
           => status' = "errored" /\ fatal' = <<StreamError>> /\ snaps' = <<>>
      /\ status' = "errored" => Len(fatal') = 1
      /\ (status' = "errored" /\ Threw' # {} /\ MissingRoot \cup MissingSub = {}
          /\ fatal'[1] # StreamError
          /\ fatal'[1] # Err(<<>>, "reactive-graphql: resolver emitted empty value"))
           => \E f \in Threw' :
                fatal'[1] = Err(<<>>, "reactive-graphql: resolver '" \o f
                                       \o "' throws this error: 'Error: my personal error'")
      /\ status = "errored" => status' = "errored" /\ snaps' = <<>> /\ total' = total
      /\ \A n \in 1..Len(snaps') :
           snaps'[n].keys = {"data"} /\ ~snaps'[n].data.isNull ]_vars

\* the resolver of a sub-field, called with the parent its field emitted,
\* throws
C25_Witness ==
  /\ status = "errored" /\ ncalls["opt"] = 1 /\ lastRaw[<<"e">>] \in ParentRaw
  /\ fatal = <<Err(<<>>, "reactive-graphql: resolver 'opt' throws this error: 'Error: my personal error'")>>

-----------------------------------------------------------------------------
\* the hint expected for each category of parent type
ExpectedHint(type) ==
  CASE type = NullType -> "The type should not be null."
    [] type = StringScalar ->
         "The field has a scalar type, which means it supports no nesting."
    [] type = ColorEnum ->
         "The field has an enum type, which means it supports no nesting."
    [] type = QueryType -> "The only fields found in this Object are: a,b,c,e."
    [] type = EmitterObject -> "The only fields found in this Object are: value,opt."
    [] OTHER -> ""
ExpectedNotFound(name, type) ==
  Err(<<>>, "reactive-graphql: field '" \o name \o "' was not found on type '"
            \o type.name \o "'. " \o ExpectedHint(type))

\* C26: with a selected field that its parent type does not define, the
\* result stream never delivers a snapshot; subscribed (for a sub-field:
\* once its parent field has emitted a value) it has ended with an error,
\* which, unless a stream error, a throwing resolver or an empty parent
\* came first, is the field-not-found message with the hint of the parent
\* type's category; the hint is the expected one for every category.
C26_FieldNotFound ==
  /\ \A type \in AdhocTypes : fieldNotFoundMessageForType(type) = ExpectedHint(type)
  /\ MissingRoot \cup MissingSub # {} => total = 0 /\ snaps = <<>>
  /\ MissingRoot # {} => status \notin {"subscribed", "unsubscribed", "completed"}
  /\ (MissingSub # {} /\ status \in {"subscribed", "unsubscribed", "completed"}) =>
       lastRaw[<<scenario.sel[1]>>] = "none" /\ slot[1] = NoVal
  /\ (MissingRoot \cup MissingSub # {} /\ status = "errored") =>
       \/ fatal = <<StreamError>>
       \/ \E f \in Threw : fatal = <<resolverThrows(f)>>
       \/ fatal = <<Err(<<>>, "reactive-graphql: resolver emitted empty value")>>
       \/ \E f \in MissingRoot : fatal = <<ExpectedNotFound(f, QueryType)>>
       \/ \E f \in MissingSub :
            fatal = <<ExpectedNotFound(f, getResultType(scenario.sel[1]))>>
  /\ (MissingRoot # {} /\ status = "errored" /\ nEvents = 0) =>
       \E f \in MissingRoot : fatal = <<ExpectedNotFound(f, QueryType)>>

C26_Witness ==
  /\ status = "errored" /\ total = 0 /\ lastRaw[<<"e">>] = "A"
  /\ fatal = <<Err(<<>>, "reactive-graphql: field 'ghost' was not found on type 'Emitter'. The only fields found in this Object are: value,opt.")>>

-----------------------------------------------------------------------------
(* A new parent value.                                                      *)

\* the stream of the object field at key k sends the parent raw
NewParent(k, raw) ==
  /\ isObjectType(FieldTypes[scenario.sel[k]])
  /\ RootSubscribed(S0, k, scenario.sel[k])
  /\ event'.ev = "next" /\ event'.s = <<scenario.sel[k]>> /\ event'.raw = raw
\* the sub-fields executeFields reaches: all up to the first non-null one
\* whose resolver throws
Reached ==
  {i \in 1..Len(scenario.sub) :
     \A j \in 1..(i - 1) :
       ~(scenario.resolver[scenario.sub[j]] = "throws"
         /\ isNonNullType(FieldTypes[scenario.sub[j]]))}
\* key k shows an object while the sub-selection of its current parent has
\* not emitted: the object comes from an earlier parent value
ShowsEarlierParent(c, val) ==
  /\ val.t = "obj" /\ c.st = "live" /\ c.par # "none"
  /\ \E i \in 1..Len(c.kids) : c.kids[i].val = NoVal
ChildrenInvoked(raw) ==
  \A i \in Reached : \E n \in 1..Len(calls') : calls'[n] = <<scenario.sub[i], raw>>

\* C27 as stated: in a query, the step in which an object field's stream
\* sends a new parent calls each child resolver with it, and no snapshot
\* shows, at that field's key, an object of an earlier parent's
\* sub-selection.
C27_NoEarlierParentValue ==
  [][ IsQuery =>
        \A k \in Keys :
          /\ \A raw \in ParentRaw : NewParent(k, raw) => ChildrenInvoked(raw)
          /\ \A n \in 1..Len(snaps') :
               ~snaps'[n].data.isNull =>
                 ~ShowsEarlierParent(chain'[k], snaps'[n].data.fields[k]) ]_vars

\* C27, amended: the step of the new parent calls each child resolver with
\* it and leaves none of the earlier sub-selection's streams subscribed;
\* what such a stream sends afterwards changes no slot and gives no
\* snapshot; a slot changes only in a step of the field's own stream or of
\* a stream of the current parent's sub-selection.  (Until that
\* sub-selection has emitted, the slot keeps the earlier parent's last
\* object.)
C27_EarlierSourcesCutOff ==
  [][ IsQuery =>
        \A k \in Keys :
          /\ \A raw \in ParentRaw :
               NewParent(k, raw) =>
                 /\ ChildrenInvoked(raw)
                 /\ \A s \in EmitterFieldNames \X (ParentRaw \ {raw}) :
                      ~Subscribed([chain |-> chain'], k, s)
                 /\ chain'[k].st = "live" => chain'[k].par \in {raw, "none"}
          /\ (event' # NoEvent /\ Len(event'.s) = 2 /\ Subscribers(event'.s) = {})
               => slot' = slot /\ snaps' = <<>>
          /\ (event' # NoEvent /\ status' = "subscribed" /\ slot'[k] # slot[k])
               => \/ event'.s = <<scenario.sel[k]>>
                  \/ /\ Len(event'.s) = 2
                     /\ event'.s[2] = lastRaw'[<<scenario.sel[k]>>] ]_vars

\* another field's emission delivers a snapshot that still shows the object
\* of the earlier parent, the new parent's sub-selection not having emitted
C27_Witness ==
  /\ IsQuery /\ status = "subscribed" /\ Len(snaps) = 1
  /\ \E k \in Keys :
       /\ ShowsEarlierParent(chain[k], snaps[1].data.fields[k])
       /\ event.ev = "next" /\ event.s # <<scenario.sel[k]>>
       /\ lastRaw[<<scenario.sel[k]>>] = chain[k].par

\* C28: a synchronous exception raised in the operation dispatcher
\* (determining the root type, collecting the top-level selections,
\* starting selection-set evaluation) does not escape execute: it is
\* appended to the errors, and the result stream emits the single snapshot
\* with data: null and completes.
C28_DispatcherExceptionsCaptured ==
  /\ status # "thrown"
  /\ (scenario.request \in DispatcherFaults /\ status # "none") => dataNull
  /\ dataNull => /\ errors # <<>>
                 /\ status \in {"built", "completed"}
                 /\ status = "completed" => total = 1
                 /\ \A n \in 1..Len(snaps) :
                      snaps[n].data.isNull /\ snaps[n].errors = errors

\* what completing the awaited value gives once the Promise is fulfilled
SettleOutcome(pend) ==
  LET valid == ensureValidRuntimeType(resolveType(pend.raw))
  IN IF pend.phase = "isTypeOf"
       THEN (IF isTypeOf(pend.raw) THEN SubFields ELSE Throw("isTypeOf"))
     ELSE IF valid.kind = "throw" THEN valid
     ELSE completeObjectValue(pend.raw)

\* the failure, if any, of the completion this step makes for the root field
\* of chain k: of the value its stream sends, or of the value whose Promise
\* is fulfilled
CompletionFailure(k) ==
  LET f == scenario.sel[k]
  IN IF event'.s # <<f>> \/ status # "subscribed" \/ chain[k].st # "live" THEN "none"
     ELSE IF event'.ev = "next" /\ completeValue(FieldTypes[f], event'.raw).kind = "throw"
       THEN completeValue(FieldTypes[f], event'.raw).why
     ELSE IF event'.ev = "settle" /\ SettleOutcome(chain[k].pend).kind = "throw"
       THEN SettleOutcome(chain[k].pend).why
     ELSE "none"

\* the step completes a value a stream of chain k's sub-selection sends,
\* chain k's field being an object or abstract one, and the completion fails
KidCompletionFails(k) ==
  /\ event'.ev = "next" /\ Len(event'.s) = 2
  /\ status = "subscribed" /\ Subscribers(event'.s) = {k}
  /\ ~isListType(FieldTypes[scenario.sel[k]])
  /\ completeValue(FieldTypes[event'.s[1]], event'.raw).kind = "throw"

SubSelectionCalled == \E n \in 1..Len(calls') : calls'[n][1] \in Range(scenario.sub)

\* C29: a completion failure (value not iterable for a list type, leaf
\* serializer returning undefined or NaN, runtime type of an abstract value
\* that is not an object type or not a possible type, isTypeOf false at once
\* or through a Promise) becomes a field error located at the field, which
\* is null if nullable; the failure does not leave the result stream as an
\* error, and no resolver of the value's sub-selection is invoked.
C29_CompletionFailuresLocated ==
  [][ IsQuery =>
        \A k \in Keys :
          /\ CompletionFailure(k) # "none" =>
                /\ status' \in {"subscribed", "completed"}
                /\ errors' = Append(errors,
                                    Err(<<scenario.sel[k]>>, CompletionFailure(k)))
                /\ isNullableType(FieldTypes[scenario.sel[k]]) => slot'[k] = NullVal
                /\ ~SubSelectionCalled
          /\ KidCompletionFails(k) =>
                /\ status' \in {"subscribed", "completed"}
                /\ errors' = Append(errors,
                                    Err(<<scenario.sel[k], event'.s[1]>>, "serialize"))
                /\ isNonNullType(FieldTypes[event'.s[1]]) => slot'[k] = NullVal ]_vars

\* the call has come to its result: a value returned at once, or the value
\* the returned Promise is fulfilled with
Resolved == typeResult.kind \in {"name", "type", "undefined", "fulfilled"}
Holds(i) == typeCall.isTypeOfs[i] \in {"true", "promiseTrue"}
HoldsAtOnce(i) == typeCall.isTypeOfs[i] = "true"
First(P(_)) ==
  IF \E i \in 1..Len(typeCall.isTypeOfs) : P(i)
    THEN CHOOSE i \in 1..Len(typeCall.isTypeOfs) : P(i) /\ \A n \in 1..(i - 1) : ~P(n)
    ELSE 0

\* C30: for a value without a string __typename, defaultResolveTypeFn
\* resolves to the first possible type in declaration order whose isTypeOf
\* holds, whatever the mix of predicates returning a boolean and predicates
\* returning a Promise, and to no type when none holds.
C30_FirstHoldingType ==
  (Resolved /\ typeCall.value # "typenamed") => typeResult.type = First(Holds)

\* C30, amended: the result is the first possible type whose isTypeOf
\* returns true at once, returned at once; when there is none, it is the
\* first possible type whose isTypeOf Promise is fulfilled with true, given
\* through a Promise if some isTypeOf returned one, and no type when none
\* holds.
C30_FirstAtOnceThenFirstPromised ==
  (typeCall.value # "typenamed" /\ typeResult # NotCalled) =>
    IF First(HoldsAtOnce) # 0
      THEN typeResult = Returned("type", First(HoldsAtOnce))
    ELSE IF \E i \in 1..Len(typeCall.isTypeOfs) :
              typeCall.isTypeOfs[i] \in {"promiseTrue", "promiseFalse"}
      THEN /\ typeResult.kind \in {"promise", "fulfilled"}
           /\ Resolved => typeResult.type = First(Holds)
      ELSE typeResult = Returned("undefined", 0)

\* a Promise before and a Promise after a type without isTypeOf: the second
\* Promise's type is the result
C30_Witness ==
  /\ typeCall.value = "object" /\ Len(typeCall.isTypeOfs) = 3
  /\ typeCall.isTypeOfs[1] = "promiseFalse" /\ typeCall.isTypeOfs[2] = "absent"
  /\ typeCall.isTypeOfs[3] = "promiseTrue"
  /\ typeResult = Returned("fulfilled", 3)

\* the step in which the subscribed stream of the ad-hoc executor's field
\* with a sub-selection sends the parent raw while the sub-selection of an
\* earlier parent is open
AdhocNewParent(raw) ==
  /\ hasSelectionSet(1) /\ status = "subscribed" /\ status' = "subscribed"
  /\ event' = Event("next", <<scenario.sel[1]>>, raw)
  /\ Subscribers(event'.s) # {}
  /\ ~isNullish(raw)
  /\ chain[1].par \notin {"none", raw}

\* C31: in the ad-hoc executor, when the resolver stream of a field with a
\* sub-selection emits a new parent value, the sub-selection of the previous
\* parent is unsubscribed and the field follows the new parent, also when
\* the previous sub-selection's streams have not completed.
C31_AdhocSwitchesToNewParent ==
  [][ \A raw \in ParentRaw :
        AdhocNewParent(raw) =>
          /\ \A s \in EmitterFieldNames \X {chain[1].par} :
               ~Subscribed([chain |-> chain'], 1, s)
          /\ chain'[1].par = raw ]_vars

\* chain k waits for a Promise and this step unsubscribes the waiting
\* stream: the field's stream sends a value, or the consumer unsubscribes
SwitchWhilePending(k) ==
  /\ status = "subscribed" /\ chain[k].st = "live" /\ chain[k].pend # NoPend
  /\ \/ event' = Event("next", <<scenario.sel[k]>>, event'.raw)
     \/ status' = "unsubscribed"

\* C32: when the parent resolver stream emits a new value, or the consumer
\* unsubscribes, while the runtime type or the isTypeOf outcome of the
\* previous value is awaited, the previous value's Promise loses its
\* subscriber: when it is fulfilled no resolver is invoked, nothing is
\* subscribed and no slot or snapshot changes.
C32_DroppedNeverEvaluated ==
  [][ /\ \A k \in Keys :
           SwitchWhilePending(k) =>
             /\ \E n \in 1..Len(dropped') :
                  dropped'[n] = [k |-> k, raw |-> chain[k].pend.raw,
                                 phase |-> chain[k].pend.phase]
             /\ \A n \in 1..Len(calls') : calls'[n][2] = event'.raw
      /\ event'.ev = "dropped" =>
           /\ calls' = <<>> /\ ncalls' = ncalls /\ ops' = <<>> /\ nsub' = nsub
           /\ snaps' = <<>> /\ slot' = slot /\ chain' = chain
           /\ errors' = errors /\ status' = status ]_vars

\* the Promise of an earlier parent is fulfilled while the sub-selection of
\* the later parent is subscribed
C32_Witness ==
  /\ event.ev = "dropped" /\ event.raw = "A" /\ status = "subscribed"
  /\ chain[1].par = "B" /\ Subscribed(S0, 1, <<"value", "B">>)
  /\ ncalls["value"] = 1


-----------------------------------------------------------------------------
(* An absorbed stream error ends the field's stream.                        *)

\* how often chain k has fed the root object in the step taken
Feeds(k) == Cardinality({n \in 1..Len(fed') : fed'[n] = k})

\* the stream of the nullable root field of key k, or the stream of a
\* non-null field of its sub-selection, fails in this step and the failure
\* is absorbed at the root field
AbsorbedAt(k) ==
  /\ status = "subscribed" /\ event'.ev = "error"
  /\ chain[k].st = "live" /\ chain[k].stage = k
  /\ isNullableType(FieldTypes[scenario.sel[k]])
  /\ \/ event'.s = <<scenario.sel[k]>> /\ Subscribed(S0, k, event'.s)
     \/ /\ Len(event'.s) = 2 /\ Subscribed(S0, k, event'.s)
        /\ ~IsList(chain[k]) /\ isNonNullType(FieldTypes[event'.s[1]])

\* the field of key k has ended with null after an absorbed failure
EndedWithNull(k) ==
  /\ status = "subscribed" /\ chain[k].st = "completed"
  /\ slot[k] = NullVal
  /\ \E n \in 1..Len(errors) :
       errors[n].path # <<>> /\ errors[n].path[1] = scenario.sel[k]

\* C33: when the error of a resolver stream is absorbed at a nullable field,
\* the field's stream emits null once and completes and the resolver's stream
\* and those of the sub-selection are no longer subscribed; from then on the
\* slot stays null, the field feeds nothing more, and every emission of a
\* sibling field publishes a snapshot that shows the null.
C33_AbsorbedFieldEndsWithNull ==
  [][ \A k \in Keys :
        /\ AbsorbedAt(k) =>
             /\ Feeds(k) = 1 /\ slot'[k] = NullVal
             /\ chain'[k].st = "completed"
             /\ \A s \in Sources : ~Subscribed([chain |-> chain'], k, s)
             /\ (Len(event'.s) = 2 /\ chain[k].outer = "sub") =>
                  Op("unsub", <<scenario.sel[k]>>) \in Range(ops')
             /\ Op("sub", <<scenario.sel[k]>>) \notin Range(ops')
             /\ IsQuery => status' \in {"subscribed", "completed"}
        /\ (EndedWithNull(k) /\ event' # NoEvent) =>
             /\ Feeds(k) = 0 /\ slot'[k] = NullVal /\ chain'[k] = chain[k]
             /\ \A j \in Keys \ {k} :
                  (Feeds(j) > 0 /\ \A i \in Keys : slot[i] # NoVal) =>
                    /\ Len(snaps') >= Feeds(j)
                    /\ \A n \in 1..Len(snaps') :
                         snaps'[n].data.fields[k] = NullVal
    ]_vars

\* an absorbed stream error, then an emission of the sibling: the snapshot
\* shows the null next to the sibling's new value
C33_Witness ==
  /\ scenario.operation = "query" /\ scenario.sel = <<"a", "b">>
  /\ EndedWithNull(1) /\ src[<<"a">>] = "errored"
  /\ event.ev = "next" /\ event.s = <<"b">>
  /\ total = 2 /\ Len(snaps) = 1
  /\ snaps[1].data.fields[1] = NullVal /\ snaps[1].data.fields[2] = LeafVal(event.raw)


-----------------------------------------------------------------------------
(* A field stream that completes without a value.                           *)

\* in a query, the stream of the root field of key k completes in this step
\* without ever having emitted
EndsEmpty(k) ==
  /\ IsQuery /\ status = "subscribed" /\ event'.ev = "complete"
  /\ chain[k].st = "live" /\ chain'[k].st = "completed" /\ slot'[k] = NoVal

\* in a query, the stream of a field of chain k's sub-selection completes in
\* this step without ever having emitted
KidEndsEmpty(k) ==
  /\ IsQuery /\ status = "subscribed" /\ event'.ev = "complete"
  /\ Len(event'.s) = 2 /\ Subscribed(S0, k, event'.s)
  /\ chain[k].kids[KidIndex(chain[k], event'.s)].val = NoVal

\* some other input of chain k's inner object is still subscribed
OtherKidOpen(k) ==
  \E j \in 1..Len(chain[k].kids) :
     j # KidIndex(chain[k], event'.s) /\ chain[k].kids[j].st = "sub"

\* C34 as stated: when a field stream completes without a value, the
\* enclosing object stream completes without a snapshot and its other field
\* streams are unsubscribed.
C34_EmptyFieldCompletesObject ==
  [][ \A k \in Keys :
        /\ EndsEmpty(k) =>
             /\ status' = "completed" /\ snaps' = <<>>
             /\ \A j \in Keys : \A s \in Sources : ~Subscribed([chain |-> chain'], j, s)
        /\ KidEndsEmpty(k) =>
             /\ Feeds(k) = 0
             /\ \A s \in Sources : Len(s) = 2 => ~Subscribed([chain |-> chain'], k, s)
    ]_vars

\* C34, amended: when a field stream completes without a value, the enclosing
\* object publishes no snapshot in that step nor later; its other field
\* streams stay subscribed and the object stream completes only when all of
\* them have completed.  No snapshot shows a slot whose field has not emitted.
C34_EmptyFieldSilencesObject ==
  [][ \A k \in Keys :
        /\ EndsEmpty(k) =>
             /\ snaps' = <<>>
             /\ \A j \in Keys \ {k} : chain'[j] = chain[j]
             /\ status' = IF \A j \in Keys : chain'[j].st = "completed"
                             THEN "completed" ELSE "subscribed"
        /\ KidEndsEmpty(k) =>
             /\ Feeds(k) = 0 /\ snaps' = <<>> /\ slot' = slot
             /\ OtherKidOpen(k) =>
                  chain' = [chain EXCEPT
                              ![k].kids[KidIndex(chain[k], event'.s)].st = "done"]
        /\ (status = "subscribed" /\ chain[k].st = "completed" /\ slot[k] = NoVal) =>
             snaps' = <<>> /\ slot'[k] = NoVal
        /\ \A n \in 1..Len(snaps') :
             ~snaps'[n].data.isNull => snaps'[n].data.fields[k] # NoVal
    ]_vars

\* the first field of the sub-selection has completed without a value, the
\* second one is still subscribed and has just emitted: the object field has
\* no value and nothing has been published
C34_Witness ==
  /\ status = "subscribed" /\ scenario.sub = <<"value", "opt">>
  /\ event.ev = "next" /\ event.s = <<"opt", "A">>
  /\ chain[1].par = "A"
  /\ chain[1].kids[1] = [st |-> "done", val |-> NoVal]
  /\ chain[1].kids[2].st = "sub" /\ chain[1].kids[2].val # NoVal
  /\ slot[1] = NoVal /\ total = 0


-----------------------------------------------------------------------------
(* One failure, one entry of the errors list.                               *)

\* the entries of errors that the step taken has appended for the reason why
Appended(why) ==
  Cardinality({n \in (Len(errors) + 1)..Len(errors') : errors'[n].why = why})

\* the calls of the step taken to resolvers that throw
Throws ==
  Cardinality({n \in 1..Len(calls') : scenario.resolver[calls'[n][1]] = "throws"})

\* the failure that ended the result stream in the step taken, if any
Escaped(why) ==
  IF fatal' # fatal /\ fatal' # <<>> /\ fatal'[1].why = why THEN 1 ELSE 0

\* C35: within one subscription, each throw of a resolver and each error of a
\* resolver stream that is absorbed appends exactly one entry to the errors
\* list (a failure that escapes ends the result stream instead), in read mode
\* and in write mode.
C35_OneFailureOneEntry ==
  [][ /\ Appended("throw") + Escaped("throw") = Throws
      /\ (status = "subscribed" /\ event'.ev = "error"
            /\ Subscribers(event'.s) # {}) =>
           Appended("stream") + Escaped("stream") = 1
    ]_vars


-----------------------------------------------------------------------------
(* Emitted snapshots and later errors.                                      *)

\* C36: a snapshot that has been emitted is not changed by a later event:
\* the errors sequence read from it after the next step is the one it
\* carried when it was emitted.
C36_SnapshotErrorsFrozen ==
  [][ \A n \in 1..Len(snaps) :
        ReadErrors(snaps[n], errors') = snaps[n].errors ]_vars


-----------------------------------------------------------------------------
(* The errors of a snapshot and its data.                                   *)

\* the position of the list item addPath gave the key to
ItemIndex(key) == CASE key = "0" -> 1 [] key = "1" -> 2 [] OTHER -> 3

\* the data d is null at path or at an ancestor of it
NullAt(d, path) ==
  \/ d.isNull
  \/ /\ path # <<>>
     /\ LET v == d.fields[KeyOf(path[1])]
        IN \/ v = NullVal
           \/ /\ Len(path) = 2 /\ v.t = "obj"
              /\ v.kv[IndexOf(scenario.sub, path[2])] = NullVal
           \/ /\ Len(path) >= 2 /\ v.t = "list" /\ ItemIndex(path[2]) <= Len(v.kv)
              /\ LET item == v.kv[ItemIndex(path[2])]
                 IN \/ item = NullVal
                    \/ Len(path) = 3 /\ item.t = "obj" /\ item.kv[1] = NullVal

\* C37: each entry of a snapshot's errors list refers to a failure visible in
\* that snapshot: the data is null at the entry's path or at an ancestor of
\* it.
C37_ErrorsVisibleInSnapshot ==
  \A n \in 1..Len(snaps) :
     \A m \in 1..Len(snaps[n].errors) :
        NullAt(snaps[n].data, snaps[n].errors[m].path)


-----------------------------------------------------------------------------
(* When the resolvers are invoked in read mode.                             *)

\* the calls of the top-level resolvers, in selection order
RootCalls == [k \in Keys |-> <<scenario.sel[k], "root">>]

\* the calls of the resolvers of the sub-selection for the parent raw
SubCalls(raw) == [i \in 1..Len(scenario.sub) |-> <<scenario.sub[i], raw>>]

\* the calls a subscription makes at once: those for the parents that are
\* plain values
PlainParentCalls ==
  Flat([k \in Keys |->
          IF scenario.resolver[scenario.sel[k]] \in ParentRaw
            THEN SubCalls(scenario.resolver[scenario.sel[k]]) ELSE <<>>])

\* the resolver of a non-null field of the sub-selection throws: the
\* evaluation of the sub-selection stops there
SubSelectionStops ==
  \E i \in 1..Len(scenario.sub) :
     scenario.resolver[scenario.sub[i]] = "throws"
     /\ isNonNullType(FieldTypes[scenario.sub[i]])

\* C38: in read mode the resolvers of the top-level fields are invoked once,
\* in selection order, when execute is called; neither a subscription nor an
\* event invokes them again.  The resolvers of a sub-selection are invoked
\* once, in selection order, for every parent value: at each subscription
\* for a parent that is a plain value, at each emission of the parent's
\* stream otherwise.
C38_RootOnceNestedPerParent ==
  [][ (IsQuery /\ scenario.request = "ok") =>
        /\ (status = "none" /\ ~dataNull') => calls' = RootCalls
        /\ status # "none" =>
             \A n \in 1..Len(calls') : calls'[n][1] \in Range(scenario.sub)
        /\ (status \in {"built", "completed", "errored"} /\ event' = NoEvent
              /\ ~dataNull /\ status' # "errored" /\ ~SubSelectionStops) =>
             calls' = PlainParentCalls
        /\ (status = "subscribed" /\ event'.ev = "next" /\ event'.raw \in ParentRaw
              /\ Len(event'.s) = 1 /\ Subscribers(event'.s) # {}
              /\ isObjectType(FieldTypes[event'.s[1]]) /\ status' # "errored"
              /\ ~SubSelectionStops) =>
             calls' = SubCalls(event'.raw)
    ]_vars

\* the second subscription has invoked the sub-selection's resolvers once
\* more for the plain parent, and no top-level resolver
C38_Witness ==
  /\ IsQuery /\ resubs = 1 /\ scenario.resolver["e"] = "A"
  /\ calls = <<<<"value", "A">>, <<"opt", "A">>>>
  /\ ncalls["value"] = 2 /\ ncalls["opt"] = 2
  /\ ncalls["c"] = 1 /\ ncalls["e"] = 1


-----------------------------------------------------------------------------
(* The two write-mode strategies.  The earlier executeFieldsSerially is an  *)
(* async loop: it resolves a field, awaits the first value of its stream    *)
(* (result.pipe(take(1)).toPromise()), goes on to the next field, and in    *)
(* the end hands all the streams to combinePropsLatest, which subscribes to *)
(* each of them once more.  With resolvers that return plain values or      *)
(* Promises its outcome does not depend on when the Promises are fulfilled, *)
(* only on what they are fulfilled with.                                    *)

\* a subscription to the stream of field f evaluates the sub-selection of
\* the parent its resolver yields
subscriptionCalls(f) ==
  IF isObjectType(FieldTypes[f]) /\ OutcomeOf(f, <<f>>) \in ParentRaw
    THEN [i \in 1..Len(scenario.sub) |-> <<scenario.sub[i], OutcomeOf(f, <<f>>)>>]
    ELSE <<>>

\* the loop: resolveField, then the await of the first value
RECURSIVE awaitFirstValues(_, _)
awaitFirstValues(fields, i) ==
  IF i > Len(fields) THEN <<>>
  ELSE <<<<fields[i], "root">>>> \o subscriptionCalls(fields[i])
       \o awaitFirstValues(fields, i + 1)

\* the completed value of field f, given what its resolver yields
firstValue(f) ==
  LET o == OutcomeOf(f, <<f>>)
      completed == completeValue(FieldTypes[f], o)
  IN IF completed.kind = "of" THEN completed.val
     ELSE ObjVal([i \in 1..Len(scenario.sub) |->
                    completeValue(FieldTypes[scenario.sub[i]],
                                  OutcomeOf(scenario.sub[i], <<scenario.sub[i], o>>)).val])

\* the calls the loop makes and the snapshots its result stream delivers
executeFieldsSeriallyLoop(fields) ==
  [calls |-> awaitFirstValues(fields, 1)
             \o Flat([k \in 1..Len(fields) |-> subscriptionCalls(fields[k])]),
   snaps |-> <<buildResponse(<<>>, ObjData([k \in 1..Len(fields) |->
                                              firstValue(fields[k])]))>>]

\* how often the resolver of f is called in calls
TimesCalled(f, cs) == Cardinality({n \in 1..Len(cs) : cs[n][1] = f})

\* C39: for a mutation whose resolvers return plain values or Promises, and
\* none of whose fields fails, the take-first + switch-map chain has, when
\* its result stream completes, delivered the snapshots of the await loop
\* and called each resolver as often as the loop does; when all resolvers
\* return plain values it has called them in the loop's order.
C39_StrategiesAgree ==
  [][ (IsMutation /\ status # "completed" /\ status' = "completed"
        /\ errors' = <<>> /\ fatal' = <<>> /\ AllSettled') =>
        /\ snaps' = executeFieldsSeriallyLoop(scenario.sel).snaps'
        /\ total' = 1
        /\ \A f \in FieldNames :
             ncalls'[f] = TimesCalled(f, executeFieldsSeriallyLoop(scenario.sel).calls)'
        /\ status = "built" =>
             calls \o calls' = executeFieldsSeriallyLoop(scenario.sel).calls'
    ]_vars

====
